---- MODULE Spec2Model ----
(***************************************************************************)
(* A model of the eden.printify Python client: the Catalog Client          *)
(* (services/printify_api.py), the template synthesizers                   *)
(* (utils/product_template_generator.py, utils/template_generator.py,      *)
(* utils/dynamic_template_helper.py) and their data transformations.       *)
(*                                                                         *)
(* JSON values are modelled by strings: a JSON string is itself, the JSON  *)
(* integer n is "int:n".  A missing key / None is modelled by an explicit  *)
(* "absent" marker (options) or by the id 0 (variant ids, which are        *)
(* positive in the remote catalog).                                        *)
(***************************************************************************)
EXTENDS Integers, Sequences, FiniteSets, TLC

VARIABLES
    optPc,      \* options normalisation: "input" or "done"
    optSite,    \* which synthesis site normalised the options
    optIn,      \* the variant's raw options value
    optOut      \* the options list placed in the descriptor

VARIABLES
    op,                 \* the operation being run
    pc,                 \* its position
    args,               \* its arguments
    api_client,         \* self.api_client (NoClient until constructed)
    calls,              \* history: how often each remote call / file operation was made
    failed,             \* history: the remote calls / file operations that failed
    slept,              \* history: the delays taken by the last step
    blueprints,         \* the blueprint listing held by the operation
    providers,          \* the provider listing held by the operation
    bi,                 \* index of the blueprint being processed
    pi,                 \* index of the provider being processed
    wire,               \* the body of the last shops or variants response
    variants,           \* the caller's local `variants`
    template,           \* the descriptor built (NoTemplate if none)
    templateSrc,        \* history: fetched index each descriptor variant came from
    files,              \* number of template files written
    total_templates,    \* bulk counter
    total_blueprints,   \* bulk counter
    manifest,           \* content of the summary file (NoManifest if unwritten)
    skips,              \* history: why bulk combinations produced no template
    listed,             \* history: number of blueprint x provider combinations listed
    withProviders,      \* history: number of blueprints listed with a provider
    result              \* what the operation returned or raised

VARIABLES
    sent,       \* the HTTP requests sent by the operations modelled request by request
    suggestions, \* the candidates collected by a suggestion or search operation
    sampled_blueprints \* the sample drawn by a suggestion or search operation

optVars == <<optPc, optSite, optIn, optOut>>

opVars == <<op, pc, args, api_client, calls, failed, slept, blueprints, providers,
            bi, pi, wire, variants, template, templateSrc, files, total_templates,
            total_blueprints, manifest, skips, listed, withProviders, result>>

reqVars == <<sent, suggestions, sampled_blueprints>>

vars == <<optPc, optSite, optIn, optOut, sent, suggestions, sampled_blueprints,
          op, pc, args, api_client, calls, failed, slept, blueprints, providers,
          bi, pi, wire, variants, template, templateSrc, files, total_templates,
          total_blueprints, manifest, skips, listed, withProviders, result>>

(***************************************************************************)
(* Bounds                                                                  *)
(***************************************************************************)
MaxOpts == 2          \* longest options list / mapping enumerated
MaxBlueprints == 2    \* blueprints in the remote catalog
MaxProviders == 2     \* print providers in the remote catalog
MaxVariants == 2      \* longest variants response
MaxVid == 2           \* largest variant id
MaxShops == 3         \* longest shops response

(***************************************************************************)
(* Generic helpers                                                         *)
(***************************************************************************)
SeqsUpTo(S, n) == UNION {[1..k -> S] : k \in 0..n}

(***************************************************************************)
(* JSON values and Python's str()                                          *)
(***************************************************************************)
JsonValues == {"Red", "L", "int:7"}

\* str(value): a string is unchanged, the integer 7 becomes the string "7"
StrOf(v) == IF v = "int:7" THEN "7" ELSE v

OptionKeys == {"color", "size", "style"}

\* options given as a list of {id, value} records
OptionRecords == [id : 1..2, value : {"Red", "L"}]

ListOptions == {[kind |-> "list", items |-> s] : s \in SeqsUpTo(OptionRecords, MaxOpts)}

\* options given as a mapping, in iteration (insertion) order, keys distinct
MapEntries == [key : OptionKeys, value : JsonValues]

MapOptions ==
    {[kind |-> "map", items |-> s] :
        s \in {t \in SeqsUpTo(MapEntries, MaxOpts) :
                  \A i, j \in 1..Len(t) : i # j => t[i].key # t[j].key}}

AbsentOptions == [kind |-> "absent", items |-> <<>>]

\* a truthy value that is neither a list nor a mapping (e.g. a bare string)
OtherOptions == [kind |-> "other", items |-> <<>>]

OptionsDomain == ListOptions \cup MapOptions \cup {AbsentOptions, OtherOptions}

\* Python truthiness of an options value
Truthy(options) ==
    CASE options.kind = "absent" -> FALSE
      [] options.kind = "other"  -> TRUE
      [] OTHER                   -> Len(options.items) > 0

\* the list comprehension over enumerate(options.items())
EnumerateFromZero(options) ==
    [i \in 1..Len(options.items) |->
        [id |-> i - 1, value |-> StrOf(options.items[i].value)]]

EnumerateOptions(options) ==
    [i \in 1..Len(options.items) |->
        [id |-> (i - 1) + 1, value |-> StrOf(options.items[i].value)]]

\* DynamicTemplateHelper._process_variant_options
ProcessVariantOptions(options) ==
    IF ~Truthy(options) THEN <<>>
    ELSE IF options.kind = "list" THEN options.items
    ELSE IF options.kind = "map" THEN EnumerateOptions(options)
    ELSE <<>>

\* ProductTemplateGenerator._create_product_template, "Process options"
SingleOptions(options) ==
    IF Truthy(options)
    THEN IF options.kind = "list" THEN options.items
         ELSE IF options.kind = "map" THEN EnumerateOptions(options)
         ELSE <<>>
    ELSE <<>>

\* TemplateGenerator._generate_template_for_combination, "Process options"
BulkOptions(options) ==
    IF Truthy(options)
    THEN IF options.kind = "list" THEN options.items
         ELSE IF options.kind = "map" THEN EnumerateOptions(options)
         ELSE <<>>
    ELSE <<>>

(***************************************************************************)
(* Catalog data: blueprints, print providers, variants                     *)
(***************************************************************************)
\* A title or description is modelled by the set of rule keywords that are
\* substrings of its lower-cased text.
BlueprintOf(i) ==
    CASE i = 1 -> [id |-> 1, title |-> {"tee"}, description |-> {}]
      [] i = 2 -> [id |-> 2, title |-> {"tank", "dress"}, description |-> {}]
      [] i = 3 -> [id |-> 3, title |-> {}, description |-> {"t-shirt"}]
      [] OTHER -> [id |-> i, title |-> {}, description |-> {}]

ProviderOf(i) == [id |-> i]

\* strictly increasing index sequences over 1..n: the sub-listings of a catalog
SubIndexSeqs(n) ==
    {s \in SeqsUpTo(1..n, n) : \A i \in 1..Len(s) - 1 : s[i] < s[i + 1]}

BlueprintListings ==
    {[k \in 1..Len(s) |-> BlueprintOf(s[k])] : s \in SubIndexSeqs(MaxBlueprints)}

ProviderListings ==
    {[k \in 1..Len(s) |-> ProviderOf(s[k])] : s \in SubIndexSeqs(MaxProviders)}

\* placeholder metadata carried by a variant: a list of positions
PlaceholderMeta == {<<>>, <<"Back">>}

SynthOptions ==
    {AbsentOptions,
     [kind |-> "map", items |-> <<[key |-> "color", value |-> "Red"],
                                  [key |-> "size", value |-> "int:7"]>>]}

\* a variant record of the remote catalog; id 0 stands for a record that
\* carries no (truthy) id
CatalogVariants ==
    {v \in [id : 0..MaxVid, options : SynthOptions, placeholders : PlaceholderMeta] :
        v.placeholders # <<>> => v.options = AbsentOptions}

\* variant ids are unique within a listing; records without an id may repeat
VariantLists ==
    {s \in SeqsUpTo(CatalogVariants, MaxVariants) :
        \A i, j \in 1..Len(s) : (i # j /\ s[i].id # 0) => s[i].id # s[j].id}

\* a variant record that carries nothing but its id
PlainVariant(id) == [id |-> id, options |-> AbsentOptions, placeholders |-> <<>>]

\* the variant listings the operations are answered with: none, one variant,
\* one variant without id, a variant without id followed by one with
SampleVariantLists ==
    {<<>>, <<PlainVariant(1)>>, <<PlainVariant(0)>>, <<PlainVariant(0), PlainVariant(2)>>}

\* the outcome of the HTTP request for a variants listing: a transport/HTTP
\* failure, a bare JSON list, or a JSON object {"variants": [...]}
SampleVariantsResponses ==
    {[shape |-> "error", items |-> <<>>]}
        \cup {[shape |-> sh, items |-> v] : sh \in {"list", "dict"}, v \in SampleVariantLists}

NoWire == [shape |-> "none", items |-> <<>>]

(***************************************************************************)
(* Catalog Client (services/printify_api.py)                               *)
(***************************************************************************)
\* shop ids on the wire: JSON integers or strings
WireShopIds == {"int:1", "int:2", "s3"}

ShopsResponses ==
    {[shape |-> "error", items |-> <<>>]}
        \cup {[shape |-> "list", items |-> s] : s \in SeqsUpTo(WireShopIds, MaxShops)}

\* get_shops: an integer id is converted with str(), a string id is kept
ShopId(w) ==
    CASE w = "int:1" -> "1"
      [] w = "int:2" -> "2"
      [] OTHER       -> w

GetShops(resp) == [i \in 1..Len(resp.items) |-> [id |-> ShopId(resp.items[i])]]

\* the responses the constructor is given when it is only a first step of
\* a synthesis operation
FirstUseShopsResponses ==
    {[shape |-> "error", items |-> <<>>],
     [shape |-> "list", items |-> <<>>],
     [shape |-> "list", items |-> <<"int:1">>]}

Tokens == {"tokA", "tokB", "tokC"}

NoClient == [kind |-> "none", api_token |-> "", shop_id |-> ""]

\* PrintifyApiClient.__init__
Client(api_token, shop_id) == [kind |-> "client", api_token |-> api_token, shop_id |-> shop_id]

Raised(e) == [kind |-> "raised", error |-> e]

\* a mutant: binds the client to the last shop
CreateWithLastShop(api_token, resp) ==
    IF resp.shape = "error" THEN Raised("transport")
    ELSE IF Len(GetShops(resp)) = 0 THEN Raised("no_shops")
    ELSE Client(api_token, GetShops(resp)[Len(GetShops(resp))].id)

\* PrintifyApiClient.create_with_dynamic_shop_id: the client it returns or
\* the failure it raises
CreateWithDynamicShopId(api_token, resp) ==
    IF resp.shape = "error" THEN Raised("transport")
    ELSE IF Len(GetShops(resp)) = 0 THEN Raised("no_shops")
    ELSE IF Len(GetShops(resp)) = 1 THEN Client(api_token, GetShops(resp)[1].id)
    ELSE Client(api_token, GetShops(resp)[1].id)

\* PrintifyApiClient.get_variants, on a response that is not a failure:
\* anything that is not a list is replaced by the empty list
GetVariants(resp) ==
    IF resp.shape = "list" THEN resp ELSE [shape |-> "list", items |-> <<>>]

\* the callers' unwrapping of the value get_variants returned:
\* variants_response.get('variants', ...) for a dict, the value itself otherwise
UnwrapVariants(resp) ==
    IF resp.shape = "dict" THEN resp.items ELSE resp.items

(***************************************************************************)
(* Discovery helper tables (utils/dynamic_template_helper.py)              *)
(***************************************************************************)
\* DynamicTemplateHelper._categorize_blueprint
CategorizeBlueprint(bp) ==
    LET t == bp.title
        d == bp.description
    IN  IF "t-shirt" \in t \/ "tee" \in t \/ "t-shirt" \in d THEN "t-shirts"
        ELSE IF "hoodie" \in t \/ "sweatshirt" \in t THEN "hoodies"
        ELSE IF "mug" \in t \/ "cup" \in t THEN "mugs"
        ELSE IF "poster" \in t \/ "print" \in t THEN "posters"
        ELSE IF "phone" \in t \/ "case" \in t THEN "phone-cases"
        ELSE IF "bag" \in t \/ "tote" \in t THEN "bags"
        ELSE IF "hat" \in t \/ "cap" \in t THEN "hats"
        ELSE IF "tank" \in t \/ "sleeveless" \in t THEN "tank-tops"
        ELSE IF "sticker" \in t THEN "stickers"
        ELSE IF "pillow" \in t THEN "pillows"
        ELSE IF "towel" \in t THEN "towels"
        ELSE IF "sock" \in t THEN "socks"
        ELSE IF "jacket" \in t THEN "jackets"
        ELSE IF "dress" \in t THEN "dresses"
        ELSE IF "pant" \in t \/ "legging" \in t THEN "pants"
        ELSE "other"

\* a mutant: an unlisted category gets the t-shirt price
EstimatePriceOrTee(category) == IF category = "stickers" THEN 500 ELSE 2500

\* DynamicTemplateHelper._estimate_price
EstimatePrice(category) ==
    CASE category = "t-shirts"    -> 2500
      [] category = "hoodies"     -> 4500
      [] category = "mugs"        -> 1500
      [] category = "posters"     -> 2000
      [] category = "phone-cases" -> 1800
      [] category = "bags"        -> 3000
      [] category = "hats"        -> 2200
      [] category = "tank-tops"   -> 2000
      [] category = "stickers"    -> 500
      [] category = "pillows"     -> 3500
      [] category = "towels"      -> 2500
      [] category = "socks"       -> 1200
      [] category = "jackets"     -> 5500
      [] category = "dresses"     -> 4000
      [] category = "pants"       -> 3500
      [] category = "other"       -> 2000
      [] OTHER                    -> 2000

\* DynamicTemplateHelper._estimate_weight
EstimateWeight(category) ==
    CASE category = "t-shirts"    -> 180
      [] category = "hoodies"     -> 400
      [] category = "mugs"        -> 350
      [] category = "posters"     -> 50
      [] category = "phone-cases" -> 30
      [] category = "bags"        -> 200
      [] category = "hats"        -> 100
      [] category = "tank-tops"   -> 150
      [] category = "stickers"    -> 5
      [] category = "pillows"     -> 500
      [] category = "towels"      -> 300
      [] category = "socks"       -> 50
      [] category = "jackets"     -> 600
      [] category = "dresses"     -> 250
      [] category = "pants"       -> 300
      [] category = "other"       -> 200
      [] OTHER                    -> 200

(***************************************************************************)
(* Descriptor synthesis                                                    *)
(***************************************************************************)
NoTemplate == [kind |-> "none"]

DefaultPrice == 2500

DefaultGrams == 180

\* default_variant.get('id', 1): a missing id is replaced by 1
IdOrOne(v) == IF v.id = 0 THEN 1 ELSE v.id

\* the empty dict {} standing in for a variant
EmptyVariant == [id |-> 0, options |-> AbsentOptions, placeholders |-> <<>>]

\* ProductTemplateGenerator._create_product_template
CreateProductTemplate(blueprint, provider, vs) ==
    LET default_variant == IF Len(vs) > 0 THEN vs[1] ELSE EmptyVariant
    IN  [kind |-> "template",
         title |-> <<blueprint.id, provider.id>>,
         blueprint_id |-> blueprint.id,
         print_provider_id |-> provider.id,
         variants |-> <<[id |-> IdOrOne(default_variant),
                         price |-> DefaultPrice,
                         is_enabled |-> TRUE,
                         is_default |-> TRUE,
                         grams |-> DefaultGrams,
                         options |-> SingleOptions(default_variant.options)]>>,
         print_areas |-> <<[variant_ids |-> <<IdOrOne(default_variant)>>,
                            placeholders |-> <<[position |-> "front",
                                                image_id |-> <<"your_image_id">>]>>]>>]

\* valid_variants = [v for v in variants if v.get('id')], as fetched indices
ValidIndices(vs) == {i \in 1..Len(vs) : vs[i].id # 0}

\* a mutant: takes the first fetched variant without filtering
FirstIndex(vs) == 1

\* the fetched index of valid_variants[0]
FirstValidIndex(vs) == CHOOSE i \in ValidIndices(vs) : \A j \in ValidIndices(vs) : i <= j

\* TemplateGenerator._generate_template_for_combination, "Generate placeholders"
BulkPlaceholders(v) ==
    IF Len(v.placeholders) > 0
    THEN [k \in 1..Len(v.placeholders) |->
             [position |-> v.placeholders[k], image_id |-> <<"placeholder_image">>]]
    ELSE <<[position |-> "front", image_id |-> <<"placeholder_front">>]>>

\* a mutant: the print area names the first fetched variant
BulkAreaFirstFetched(vs) == <<vs[1].id>>

\* the variant_ids of the bulk descriptor's print area
BulkAreaVariantIds(vs) == <<vs[FirstValidIndex(vs)].id>>

\* TemplateGenerator._generate_template_for_combination, from the unwrapped
\* variants on: None when there is no variant or no variant with an id
BulkTemplate(blueprint, provider, vs) ==
    IF Len(vs) = 0 THEN NoTemplate
    ELSE IF ValidIndices(vs) = {} THEN NoTemplate
    ELSE LET default_variant == vs[FirstValidIndex(vs)]
         IN  [kind |-> "template",
              title |-> <<blueprint.id, provider.id>>,
              blueprint_id |-> blueprint.id,
              print_provider_id |-> provider.id,
              variants |-> <<[id |-> default_variant.id,
                              price |-> DefaultPrice,
                              is_enabled |-> TRUE,
                              is_default |-> TRUE,
                              grams |-> DefaultGrams,
                              options |-> BulkOptions(default_variant.options)]>>,
              print_areas |-> <<[variant_ids |-> BulkAreaVariantIds(vs),
                                 placeholders |-> BulkPlaceholders(default_variant)]>>]

\* DynamicTemplateHelper._generate_placeholders
GeneratePlaceholders(v) ==
    IF Len(v.placeholders) > 0
    THEN [k \in 1..Len(v.placeholders) |->
             [position |-> v.placeholders[k],
              image_id |-> <<"placeholder_", v.placeholders[k]>>]]
    ELSE <<[position |-> "front", image_id |-> <<"placeholder_front">>]>>

NoCustomizations == [given |-> FALSE, price |-> 0]

Customizations == {NoCustomizations, [given |-> TRUE, price |-> 1999]}

\* 'is_default': variant.get('id') == variants[0].get('id')
IsDefaultVariant(vs, k) == vs[k].id = vs[1].id

\* DynamicTemplateHelper.generate_product_template, "Generate template"
DynamicTemplate(blueprint, provider, vs, customizations) ==
    [kind |-> "template",
     title |-> <<blueprint.id, provider.id>>,
     blueprint_id |-> blueprint.id,
     print_provider_id |-> provider.id,
     variants |-> [k \in 1..Len(vs) |->
                      [id |-> vs[k].id,
                       price |-> IF customizations.given
                                 THEN customizations.price
                                 ELSE EstimatePrice(CategorizeBlueprint(blueprint)),
                       is_enabled |-> TRUE,
                       is_default |-> IsDefaultVariant(vs, k),
                       grams |-> EstimateWeight(CategorizeBlueprint(blueprint)),
                       options |-> ProcessVariantOptions(vs[k].options)]],
     print_areas |-> [k \in 1..Len(vs) |->
                         [variant_ids |-> <<vs[k].id>>,
                          placeholders |-> GeneratePlaceholders(vs[k])]]]

(***************************************************************************)
(* Specification Spec: the client constructor and the three synthesis      *)
(* operations, one remote call per step                                    *)
(***************************************************************************)
NoManifest == [kind |-> "none"]

NoResult == [kind |-> "none"]

Returned(v) == [kind |-> "returned", value |-> v]

\* the remote calls and file operations of the operations
Steps == {"shops", "blueprints", "providers", "variants",
          "makedirs", "write", "write_summary"}

NoCalls == [s \in Steps |-> 0]

\* the call counts after one more call of step s
Did(c, s) == [c EXCEPT ![s] = @ + 1]

Succeeded(s) == calls[s] > 0 /\ s \notin failed

ListingResponses(L) ==
    {[shape |-> "error", items |-> <<>>]} \cup {[shape |-> "list", items |-> l] : l \in L}

\* a mutant: falls back to the first entry when the id is not listed
FindOrFirst(listing, id) ==
    IF \E i \in 1..Len(listing) : listing[i].id = id
    THEN CHOOSE i \in 1..Len(listing) : listing[i].id = id
    ELSE IF Len(listing) > 0 THEN 1 ELSE 0

\* a mutant: an empty variant listing is not checked for
NeverEmpty(vs) == FALSE

\* `if not variants:` in generate_template and generate_product_template
NoVariants(vs) == Len(vs) = 0

\* next((x for x in listing if x.id == id), None), as an index (0 for None)
FindById(listing, id) ==
    IF \E i \in 1..Len(listing) : listing[i].id = id
    THEN CHOOSE i \in 1..Len(listing) :
            /\ listing[i].id = id
            /\ \A j \in 1..Len(listing) : listing[j].id = id => i <= j
    ELSE 0

SynthOps == {"generate_template", "generate_product_template"}

Bulk == "generate_all_templates"

ConfigToken == "tokA"

NoArgs == [api_token |-> ConfigToken, blueprint_id |-> 0, print_provider_id |-> 0,
           customizations |-> NoCustomizations]

OptInit ==
    /\ optPc = "input"
    /\ optSite = "none"
    /\ optIn \in OptionsDomain
    /\ optOut = <<>>

OptIdle ==
    /\ optPc = "idle"
    /\ optSite = "none"
    /\ optIn = AbsentOptions
    /\ optOut = <<>>

\* nothing requested, built, written or returned yet
NothingDone ==
    /\ calls = NoCalls
    /\ failed = {}
    /\ slept = <<>>
    /\ wire = NoWire
    /\ template = NoTemplate
    /\ templateSrc = <<>>
    /\ files = 0
    /\ total_templates = 0
    /\ total_blueprints = 0
    /\ manifest = NoManifest
    /\ skips = {}
    /\ listed = 0
    /\ withProviders = 0
    /\ result = NoResult
    /\ sent = <<>>
    /\ suggestions = <<>>
    /\ sampled_blueprints = <<>>

OpIdle ==
    /\ op = "none"
    /\ pc = "idle"
    /\ args = NoArgs
    /\ api_client = NoClient
    /\ blueprints = <<>>
    /\ providers = <<>>
    /\ bi = 0
    /\ pi = 0
    /\ variants = <<>>
    /\ NothingDone

\* The state after construction: generate_template runs on a generator that
\* was handed a client; the other operations build theirs on first use.
OpInit ==
    /\ op \in SynthOps \cup {Bulk}
    /\ IF op \in SynthOps
       THEN /\ args \in [api_token : {ConfigToken},
                         blueprint_id : 1..MaxBlueprints,
                         print_provider_id : 1..MaxProviders,
                         customizations : Customizations]
            /\ op = "generate_template" => args.customizations = NoCustomizations
       ELSE args = NoArgs
    /\ pc = IF op = "generate_template" THEN "blueprints" ELSE "init"
    /\ api_client = IF op = "generate_template" THEN Client(ConfigToken, "1") ELSE NoClient
    /\ blueprints = <<>>
    /\ providers = <<>>
    /\ bi = 0
    /\ pi = 0
    /\ variants = <<>>
    /\ NothingDone

Init == OpInit /\ OptIdle

\* _init_api_client cannot load its configuration: the failure propagates
\* before any request is made
LoadConfigFails ==
    /\ pc = "init"
    /\ op \in {"generate_product_template", Bulk}
    /\ result' = Raised("config")
    /\ pc' = "done"
    /\ UNCHANGED <<op, args, api_client, calls, failed, slept, blueprints, providers,
                   bi, pi, wire, variants, template, templateSrc, files, total_templates,
                   total_blueprints, manifest, skips, listed, withProviders>>
    /\ UNCHANGED optVars
    /\ UNCHANGED reqVars

\* PrintifyApiClient.create_with_dynamic_shop_id, called directly or from
\* _init_api_client, on one of the given responses to the shops request
CreateClientFrom(responses) ==
    /\ pc = "init"
    /\ \E resp \in responses :
          LET r == CreateWithDynamicShopId(args.api_token, resp)
          IN  /\ calls' = Did(calls, "shops")
              /\ failed' = IF resp.shape = "error" THEN failed \cup {"shops"} ELSE failed
              /\ wire' = resp
              /\ IF r.kind = "raised"
                 THEN /\ result' = r
                      /\ pc' = "done"
                      /\ UNCHANGED api_client
                 ELSE /\ api_client' = r
                      /\ IF op = "create_with_dynamic_shop_id"
                         THEN result' = Returned(r) /\ pc' = "done"
                         ELSE result' = result /\ pc' = "blueprints"
    /\ UNCHANGED <<op, args, slept, blueprints, providers, bi, pi,
                   variants, template, templateSrc, files, total_templates,
                   total_blueprints, manifest, skips, listed, withProviders>>
    /\ UNCHANGED optVars
    /\ UNCHANGED reqVars

\* _init_api_client, past load_config
InitApiClient == op # "create_with_dynamic_shop_id" /\ CreateClientFrom(FirstUseShopsResponses)

(***************************************************************************)
(* generate_template and generate_product_template                         *)
(***************************************************************************)
SynthGetBlueprints ==
    /\ pc = "blueprints"
    /\ op \in SynthOps
    /\ wire' = NoWire
    /\ calls' = Did(calls, "blueprints")
    /\ \E resp \in ListingResponses(BlueprintListings) :
          IF resp.shape = "error"
          THEN /\ failed' = failed \cup {"blueprints"}
               /\ result' = Raised("transport")
               /\ pc' = "done"
               /\ UNCHANGED <<blueprints, bi>>
          ELSE /\ failed' = failed
               /\ blueprints' = resp.items
               /\ bi' = FindById(resp.items, args.blueprint_id)
               /\ IF bi' = 0
                  THEN result' = Raised("not_found_blueprint") /\ pc' = "done"
                  ELSE result' = result /\ pc' = "providers"
    /\ UNCHANGED <<op, args, api_client, slept, providers, pi,
                   variants, template, templateSrc, files, total_templates,
                   total_blueprints, manifest, skips, listed, withProviders>>
    /\ UNCHANGED optVars
    /\ UNCHANGED reqVars

SynthGetProviders ==
    /\ pc = "providers"
    /\ op \in SynthOps
    /\ calls' = Did(calls, "providers")
    /\ \E resp \in ListingResponses(ProviderListings) :
          IF resp.shape = "error"
          THEN /\ failed' = failed \cup {"providers"}
               /\ result' = Raised("transport")
               /\ pc' = "done"
               /\ UNCHANGED <<providers, pi>>
          ELSE /\ failed' = failed
               /\ providers' = resp.items
               /\ pi' = FindById(resp.items, args.print_provider_id)
               /\ IF pi' = 0
                  THEN result' = Raised("not_found_provider") /\ pc' = "done"
                  ELSE result' = result /\ pc' = "variants"
    /\ UNCHANGED <<op, args, api_client, slept, blueprints, bi,
                   wire, variants, template, templateSrc, files, total_templates,
                   total_blueprints, manifest, skips, listed, withProviders>>
    /\ UNCHANGED optVars
    /\ UNCHANGED reqVars

\* the fetched index each variant of the descriptor is built from
SynthSources(vs) ==
    IF op = "generate_template" THEN <<1>> ELSE [k \in 1..Len(vs) |-> k]

SynthTemplate(vs) ==
    IF op = "generate_template"
    THEN CreateProductTemplate(blueprints[bi], providers[pi], vs)
    ELSE DynamicTemplate(blueprints[bi], providers[pi], vs, args.customizations)

SynthGetVariants ==
    /\ pc = "variants"
    /\ op \in SynthOps
    /\ calls' = Did(calls, "variants")
    /\ \E resp \in SampleVariantsResponses :
          /\ wire' = resp
          /\ IF resp.shape = "error"
             THEN /\ failed' = failed \cup {"variants"}
                  /\ result' = Raised("transport")
                  /\ pc' = "done"
                  /\ UNCHANGED <<variants, template, templateSrc>>
             ELSE /\ failed' = failed
                  /\ variants' = UnwrapVariants(GetVariants(resp))
                  /\ IF NoVariants(variants')
                     THEN /\ result' = Raised("empty_variants")
                          /\ pc' = "done"
                          /\ UNCHANGED <<template, templateSrc>>
                     ELSE /\ template' = SynthTemplate(variants')
                          /\ templateSrc' = SynthSources(variants')
                          /\ IF op = "generate_template"
                             THEN result' = result /\ pc' = "write"
                             ELSE result' = Returned(template') /\ pc' = "done"
    /\ UNCHANGED <<op, args, api_client, slept, blueprints, providers, bi, pi,
                   files, total_templates,
                   total_blueprints, manifest, skips, listed, withProviders>>
    /\ UNCHANGED optVars
    /\ UNCHANGED reqVars

\* generate_template, "Save template to file"
SynthWriteTemplate ==
    /\ pc = "write"
    /\ op = "generate_template"
    /\ calls' = Did(calls, "write")
    /\ \E ok \in BOOLEAN :
          IF ok
          THEN /\ files' = files + 1
               /\ failed' = failed
               /\ result' = Returned(<<"template", args.blueprint_id, args.print_provider_id>>)
          ELSE /\ failed' = failed \cup {"write"}
               /\ result' = Raised("io")
               /\ UNCHANGED files
    /\ pc' = "done"
    /\ UNCHANGED <<op, args, api_client, slept, blueprints, providers, bi, pi,
                   wire, variants, template, templateSrc, total_templates,
                   total_blueprints, manifest, skips, listed, withProviders>>
    /\ UNCHANGED optVars
    /\ UNCHANGED reqVars

(***************************************************************************)
(* TemplateGenerator.generate_all_templates                                *)
(***************************************************************************)
\* the position after the provider loop of blueprint bi ended
NextBlueprint ==
    /\ pi' = 0
    /\ IF bi < Len(blueprints)
       THEN bi' = bi + 1 /\ pc' = "providers"
       ELSE bi' = bi /\ pc' = "summary"

\* the position after provider pi was processed, having taken the given
\* delays; after the last provider the blueprint iteration takes its own
NextProvider(delays) ==
    IF pi < Len(providers)
    THEN /\ slept' = delays
         /\ pi' = pi + 1
         /\ pc' = "variants"
         /\ bi' = bi
    ELSE /\ slept' = Append(delays, "blueprint_delay")
         /\ NextBlueprint

\* os.makedirs(templates_dir) and the blueprint listing: a failure here is
\* re-raised by the outer handler
BulkGetBlueprints ==
    /\ pc = "blueprints"
    /\ op = Bulk
    /\ wire' = NoWire
    /\ \/ /\ calls' = Did(calls, "makedirs")
          /\ failed' = failed \cup {"makedirs"}
          /\ result' = Raised("io")
          /\ pc' = "done"
          /\ UNCHANGED <<blueprints, bi>>
       \/ \E resp \in ListingResponses(BlueprintListings) :
             /\ calls' = Did(Did(calls, "makedirs"), "blueprints")
             /\ IF resp.shape = "error"
                THEN /\ failed' = failed \cup {"blueprints"}
                     /\ result' = Raised("transport")
                     /\ pc' = "done"
                     /\ UNCHANGED <<blueprints, bi>>
                ELSE /\ failed' = failed
                     /\ blueprints' = resp.items
                     /\ result' = result
                     /\ IF Len(resp.items) = 0
                        THEN bi' = 0 /\ pc' = "summary"
                        ELSE bi' = 1 /\ pc' = "providers"
    /\ UNCHANGED <<op, args, api_client, slept, providers, pi,
                   variants, template, templateSrc, files, total_templates,
                   total_blueprints, manifest, skips, listed, withProviders>>
    /\ UNCHANGED optVars
    /\ UNCHANGED reqVars

\* a mutant: every blueprint is counted
CountsEveryBlueprint(listing) == TRUE

\* `if providers:` -- only a blueprint with providers is counted
CountsBlueprint(listing) == Len(listing) > 0

\* one iteration of the blueprint loop up to its provider loop; a failed
\* provider listing is caught by the blueprint loop, which goes on with the
\* next blueprint
BulkGetProviders ==
    /\ pc = "providers"
    /\ op = Bulk
    /\ calls' = Did(calls, "providers")
    /\ \E resp \in ListingResponses(ProviderListings) :
          IF resp.shape = "error"
          THEN /\ failed' = failed \cup {"providers"}
               /\ slept' = <<>>
               /\ NextBlueprint
               /\ UNCHANGED <<providers, total_blueprints, listed, withProviders>>
          ELSE /\ failed' = failed
               /\ providers' = resp.items
               /\ listed' = listed + Len(resp.items)
               /\ withProviders' = IF Len(resp.items) > 0 THEN withProviders + 1
                                                           ELSE withProviders
               /\ total_blueprints' =
                     IF CountsBlueprint(resp.items) THEN total_blueprints + 1
                                                    ELSE total_blueprints
               /\ IF Len(resp.items) > 0
                  THEN /\ slept' = <<>>
                       /\ pi' = 1
                       /\ pc' = "variants"
                       /\ bi' = bi
                  ELSE /\ slept' = <<"blueprint_delay">>
                       /\ NextBlueprint
    /\ UNCHANGED <<op, args, api_client, blueprints,
                   wire, variants, template, templateSrc, files, total_templates,
                   manifest, skips, result>>
    /\ UNCHANGED optVars
    /\ UNCHANGED reqVars

\* _generate_template_for_combination: every failure inside it yields None
GenerateTemplateForCombination(blueprint, provider, resp) ==
    IF resp.shape = "error" THEN NoTemplate
    ELSE BulkTemplate(blueprint, provider, UnwrapVariants(GetVariants(resp)))

\* the variant fetch of a combination failed or returned an empty list
FetchFailedOrEmpty(resp) ==
    resp.shape = "error" \/ Len(GetVariants(resp).items) = 0

\* why a combination produced no template
SkipReason(resp) ==
    IF resp.shape = "error" THEN "fetch_failed"
    ELSE IF Len(GetVariants(resp).items) = 0 THEN "empty"
    ELSE "no_valid"

\* a mutant: a combination without template ends the provider loop
SkipRestOfBlueprint(delays) ==
    /\ slept' = Append(delays, "blueprint_delay")
    /\ NextBlueprint

\* after a combination produced no template: the provider loop goes on
AfterSkippedCombination(delays) == NextProvider(delays)

\* one iteration of the provider loop up to the file write
BulkGenerateCombination ==
    /\ pc = "variants"
    /\ op = Bulk
    /\ calls' = Did(calls, "variants")
    /\ \E resp \in SampleVariantsResponses :
          LET tpl == GenerateTemplateForCombination(blueprints[bi], providers[pi], resp)
          IN  /\ wire' = resp
              /\ failed' = IF resp.shape = "error" THEN failed \cup {"variants"} ELSE failed
              /\ IF tpl = NoTemplate
                 THEN /\ skips' = skips \cup {SkipReason(resp)}
                      /\ AfterSkippedCombination(<<"provider_delay">>)
                      /\ UNCHANGED <<template, templateSrc>>
                 ELSE /\ template' = tpl
                      /\ templateSrc' = <<FirstValidIndex(UnwrapVariants(GetVariants(resp)))>>
                      /\ pc' = "write"
                      /\ UNCHANGED <<bi, pi, skips, slept>>
    /\ UNCHANGED <<op, args, api_client, blueprints, providers,
                   variants, files, total_templates,
                   total_blueprints, manifest, listed, withProviders, result>>
    /\ UNCHANGED optVars
    /\ UNCHANGED reqVars

\* "Save template to file": a failed write is caught by the provider loop
BulkWriteTemplate ==
    /\ pc = "write"
    /\ op = Bulk
    /\ calls' = Did(calls, "write")
    /\ \E ok \in BOOLEAN :
          IF ok
          THEN /\ files' = files + 1
               /\ failed' = failed
               /\ total_templates' = total_templates + 1
               /\ NextProvider(<<"provider_delay">>)
          ELSE /\ failed' = failed \cup {"write"}
               /\ UNCHANGED <<files, total_templates>>
               /\ NextProvider(<<>>)
    /\ template' = NoTemplate
    /\ templateSrc' = <<>>
    /\ UNCHANGED <<op, args, api_client, blueprints, providers,
                   wire, variants,
                   total_blueprints, manifest, skips, listed, withProviders, result>>
    /\ UNCHANGED optVars
    /\ UNCHANGED reqVars

\* the value generate_all_templates returns
BulkResult == Returned([total_templates |-> total_templates,
                        total_blueprints |-> total_blueprints])

\* a mutant: a manifest that cannot be written is only logged
SummaryFailureLogged == BulkResult

\* _generate_template_summary re-raises, and so does the outer handler
SummaryFailure == Raised("io")

\* _generate_template_summary and the return of generate_all_templates
BulkWriteSummary ==
    /\ pc = "summary"
    /\ op = Bulk
    /\ calls' = Did(calls, "write_summary")
    /\ \E ok \in BOOLEAN :
          IF ok
          THEN /\ failed' = failed
               /\ manifest' = [kind |-> "manifest",
                               total_templates |-> total_templates,
                               total_blueprints |-> total_blueprints,
                               blueprints |-> [k \in 1..Len(blueprints) |-> blueprints[k].id]]
               /\ result' = BulkResult
          ELSE /\ failed' = failed \cup {"write_summary"}
               /\ result' = SummaryFailure
               /\ UNCHANGED manifest
    /\ pc' = "done"
    /\ UNCHANGED <<op, args, api_client, slept, blueprints, providers, bi, pi,
                   wire, variants, template, templateSrc, files, total_templates,
                   total_blueprints, skips, listed, withProviders>>
    /\ UNCHANGED optVars
    /\ UNCHANGED reqVars

\* TemplateGenerator.get_template_info, called once generate_all_templates
\* has ended: the defaults when there is no summary file, else the content
\* of the summary file as it was written
GetTemplateInfo ==
    /\ pc = "done"
    /\ op = Bulk
    /\ result' = Returned(IF manifest = NoManifest
                          THEN [total_templates |-> 0,
                                total_blueprints |-> 0,
                                templates_dir |-> "templates",
                                summary_file |-> "templates/templates-summary.json",
                                categories |-> <<>>]
                          ELSE [total_templates |-> manifest.total_templates,
                                total_blueprints |-> manifest.total_blueprints,
                                generated_at |-> "strftime",
                                blueprints |-> manifest.blueprints])
    /\ op' = "get_template_info"
    /\ pc' = "done"
    /\ UNCHANGED <<args, api_client, calls, failed, slept, blueprints, providers, bi, pi,
                   wire, variants, template, templateSrc, files, total_templates,
                   total_blueprints, manifest, skips, listed, withProviders>>
    /\ UNCHANGED optVars
    /\ UNCHANGED reqVars

Next ==
    \/ LoadConfigFails
    \/ InitApiClient
    \/ SynthGetBlueprints
    \/ SynthGetProviders
    \/ SynthGetVariants
    \/ SynthWriteTemplate
    \/ BulkGetBlueprints
    \/ BulkGetProviders
    \/ BulkGenerateCombination
    \/ BulkWriteTemplate
    \/ BulkWriteSummary
    \/ GetTemplateInfo

Spec == Init /\ [][Next]_vars

(***************************************************************************)
(* Specification SpecShop: create_with_dynamic_shop_id called directly     *)
(***************************************************************************)
ShopInit ==
    /\ op = "create_with_dynamic_shop_id"
    /\ pc = "init"
    /\ args \in [api_token : Tokens, blueprint_id : {0}, print_provider_id : {0},
                 customizations : {NoCustomizations}]
    /\ api_client = NoClient
    /\ blueprints = <<>>
    /\ providers = <<>>
    /\ bi = 0
    /\ pi = 0
    /\ variants = <<>>
    /\ NothingDone
    /\ OptIdle

ResolveShop == op = "create_with_dynamic_shop_id" /\ CreateClientFrom(ShopsResponses)

ShopNext == ResolveShop

SpecShop == ShopInit /\ [][ShopNext]_vars

(***************************************************************************)
(* Specification SpecOptions: options normalisation at the three sites     *)
(***************************************************************************)
NormalizeDynamic ==
    /\ optPc = "input"
    /\ optOut' = ProcessVariantOptions(optIn)
    /\ optSite' = "dynamic"
    /\ optPc' = "done"
    /\ UNCHANGED optIn
    /\ UNCHANGED opVars
    /\ UNCHANGED reqVars

NormalizeSingle ==
    /\ optPc = "input"
    /\ optOut' = SingleOptions(optIn)
    /\ optSite' = "single"
    /\ optPc' = "done"
    /\ UNCHANGED optIn
    /\ UNCHANGED opVars
    /\ UNCHANGED reqVars

NormalizeBulk ==
    /\ optPc = "input"
    /\ optOut' = BulkOptions(optIn)
    /\ optSite' = "bulk"
    /\ optPc' = "done"
    /\ UNCHANGED optIn
    /\ UNCHANGED opVars
    /\ UNCHANGED reqVars

OptNext == NormalizeDynamic \/ NormalizeSingle \/ NormalizeBulk

OptionsInit == OptInit /\ OpIdle

SpecOptions == OptionsInit /\ [][OptNext]_vars

(***************************************************************************)
(* C10 (as stated): a mapping-typed options value with entries             *)
(* (k1:v1, ..., kn:vn) is normalised to [{id:1,value:v1},...,{id:n,        *)
(* value:vn}] carrying the mapping's values themselves, and a list-typed   *)
(* options value is left unchanged.                                        *)
(***************************************************************************)
C10_RawValues ==
    optPc = "done" =>
        /\ optIn.kind = "map" =>
              optOut = [i \in 1..Len(optIn.items) |->
                           [id |-> i, value |-> optIn.items[i].value]]
        /\ optIn.kind = "list" => optOut = optIn.items

(***************************************************************************)
(* C10 (amended): at every synthesis site a mapping-typed options value    *)
(* with entries (k1:v1, ..., kn:vn) in iteration order is normalised to    *)
(* [{id:1,value:str(v1)}, ..., {id:n,value:str(vn)}] (same length, same    *)
(* order, ids 1..n, each value converted with str), and a list-typed       *)
(* options value is left unchanged.                                        *)
(***************************************************************************)
C10_OptionsNormalized ==
    optPc = "done" =>
        /\ optIn.kind = "map" =>
              /\ Len(optOut) = Len(optIn.items)
              /\ \A i \in 1..Len(optOut) :
                    /\ optOut[i].id = i
                    /\ optOut[i].value = StrOf(optIn.items[i].value)
        /\ optIn.kind = "list" => optOut = optIn.items

\* a two-entry mapping whose first value is not a string has been normalised
C10_Witness ==
    /\ optPc = "done"
    /\ optIn.kind = "map"
    /\ Len(optIn.items) = 2
    /\ optIn.items[1].value = "int:7"
    /\ optIn.items[2].value = "L"
    /\ optOut = <<[id |-> 1, value |-> "7"], [id |-> 2, value |-> "L"]>>


(***************************************************************************)
(* Specification SpecTemplates: the three descriptor builders applied to   *)
(* a fetched variant list                                                  *)
(***************************************************************************)
TemplatesInit ==
    /\ op \in SynthOps \cup {Bulk}
    /\ pc = "build"
    /\ args = [api_token |-> ConfigToken, blueprint_id |-> 1, print_provider_id |-> 1,
               customizations |-> NoCustomizations]
    /\ api_client = Client(ConfigToken, "1")
    /\ blueprints = <<BlueprintOf(1)>>
    /\ providers = <<ProviderOf(1)>>
    /\ bi = 1
    /\ pi = 1
    /\ variants \in VariantLists
    /\ NothingDone
    /\ OptIdle

\* generate_template past its empty check
BuildSingle ==
    /\ pc = "build"
    /\ op = "generate_template"
    /\ ~NoVariants(variants)
    /\ template' = CreateProductTemplate(blueprints[bi], providers[pi], variants)
    /\ templateSrc' = <<1>>
    /\ pc' = "built"
    /\ UNCHANGED <<op, args, api_client, calls, failed, slept, blueprints, providers,
                   bi, pi, wire, variants, files, total_templates,
                   total_blueprints, manifest, skips, listed, withProviders, result>>
    /\ UNCHANGED optVars
    /\ UNCHANGED reqVars

\* generate_product_template past its empty check
BuildDynamic ==
    /\ pc = "build"
    /\ op = "generate_product_template"
    /\ ~NoVariants(variants)
    /\ template' = DynamicTemplate(blueprints[bi], providers[pi], variants, args.customizations)
    /\ templateSrc' = [k \in 1..Len(variants) |-> k]
    /\ pc' = "built"
    /\ UNCHANGED <<op, args, api_client, calls, failed, slept, blueprints, providers,
                   bi, pi, wire, variants, files, total_templates,
                   total_blueprints, manifest, skips, listed, withProviders, result>>
    /\ UNCHANGED optVars
    /\ UNCHANGED reqVars

\* _generate_template_for_combination on the unwrapped variants
BuildBulk ==
    /\ pc = "build"
    /\ op = Bulk
    /\ template' = BulkTemplate(blueprints[bi], providers[pi], variants)
    /\ templateSrc' = IF template'.kind = "template" THEN <<FirstValidIndex(variants)>> ELSE <<>>
    /\ pc' = "built"
    /\ UNCHANGED <<op, args, api_client, calls, failed, slept, blueprints, providers,
                   bi, pi, wire, variants, files, total_templates,
                   total_blueprints, manifest, skips, listed, withProviders, result>>
    /\ UNCHANGED optVars
    /\ UNCHANGED reqVars

TemplatesNext == BuildSingle \/ BuildDynamic \/ BuildBulk

SpecTemplates == TemplatesInit /\ [][TemplatesNext]_vars

(***************************************************************************)
(* Claims                                                                  *)
(***************************************************************************)
BlueprintIds == {blueprints[k].id : k \in 1..Len(blueprints)}

ProviderIds == {providers[k].id : k \in 1..Len(providers)}

\* the blueprint loop of the bulk run is over
LoopEnded == pc = "summary" \/ calls["write_summary"] > 0

(***************************************************************************)
(* C1: in bulk generation, the step that processes a combination whose     *)
(* variant fetch fails or returns an empty list writes no template file,   *)
(* counts no template, raises nothing and moves on to the next provider of *)
(* the blueprint (to the next blueprint, or to the summary, after the      *)
(* last); when the blueprint loop has ended the providers of every listed  *)
(* blueprint and the variants of every listed combination were requested;  *)
(* and the run returns its counts once the manifest is written.            *)
(***************************************************************************)
C1_SkipAndContinue ==
    [][op = Bulk =>
          /\ (pc = "variants" /\ FetchFailedOrEmpty(wire')) =>
                /\ files' = files
                /\ total_templates' = total_templates
                /\ template' = NoTemplate
                /\ result' = NoResult
                /\ IF pi < Len(providers)
                   THEN pc' = "variants" /\ bi' = bi /\ pi' = pi + 1
                   ELSE IF bi < Len(blueprints)
                        THEN pc' = "providers" /\ bi' = bi + 1
                        ELSE pc' = "summary"
          /\ LoopEnded' =>
                /\ calls'["providers"] = Len(blueprints')
                /\ calls'["variants"] = listed'
          /\ (pc' = "done" /\ Succeeded("write_summary")') =>
                /\ result'.kind = "returned"
                /\ result'.value.total_templates = files'
      ]_vars

\* a finished run over four combinations: one fetch failed, one listing was
\* empty, the two other combinations were written
C1_Witness ==
    /\ op = Bulk
    /\ pc = "done"
    /\ result.kind = "returned"
    /\ skips = {"fetch_failed", "empty"}
    /\ "write" \notin failed
    /\ Len(blueprints) = 2
    /\ listed = 4
    /\ calls["variants"] = 4
    /\ files = 2

C3_OuterFailurePropagates ==
    op = Bulk =>
        /\ (failed \cap {"makedirs", "blueprints", "write_summary"} # {}) =>
              /\ pc = "done"
              /\ result.kind = "raised"
        /\ "blueprints" \in failed =>
              /\ files = 0
              /\ manifest = NoManifest
              /\ calls["write"] = 0
              /\ calls["write_summary"] = 0

\* the manifest could not be written after a template file was
C3_Witness ==
    /\ op = Bulk
    /\ "write_summary" \in failed
    /\ files > 0
    /\ result.kind = "raised"
    /\ result.error = "io"

(***************************************************************************)
(* C4: the synthesis code sees the same variant sequence V whether the     *)
(* variants response is the bare list V or the object {"variants": V}, and *)
(* treats neither as empty when V is not empty.                            *)
(***************************************************************************)
C4_BothShapesSameVariants ==
    (op \in SynthOps /\ Succeeded("variants")) =>
        /\ variants = wire.items
        /\ Len(wire.items) > 0 => (result.kind = "raised" => result.error # "empty_variants")

(***************************************************************************)
(* C5: create_with_dynamic_shop_id raises the "no shops" error and builds  *)
(* no client when the shops response is empty; otherwise it returns a      *)
(* client bound to the id of the first shop of the response, however many  *)
(* shops there are.                                                        *)
(***************************************************************************)
C5_FirstShopOrNoShops ==
    (op = "create_with_dynamic_shop_id" /\ pc = "done" /\ wire.shape = "list") =>
        IF Len(wire.items) = 0
        THEN /\ result.kind = "raised"
             /\ result.error = "no_shops"
             /\ api_client = NoClient
        ELSE /\ result.kind = "returned"
             /\ result.value.kind = "client"
             /\ result.value.api_token = args.api_token
             /\ result.value.shop_id = ShopId(wire.items[1])

\* three shops, the first with an integer id that differs from the others
C5_Witness ==
    /\ op = "create_with_dynamic_shop_id"
    /\ pc = "done"
    /\ wire.shape = "list"
    /\ wire.items = <<"int:2", "s3", "int:1">>
    /\ result.kind = "returned"
    /\ result.value.shop_id = "2"

(***************************************************************************)
(* C6: generate_template and generate_product_template raise a not-found   *)
(* error when the requested blueprint id is not in the fetched blueprint   *)
(* listing or the requested provider id is not in the fetched provider     *)
(* listing; then no variants request is made and no descriptor is built,   *)
(* returned or written.                                                    *)
(***************************************************************************)
C6_NotFoundStopsSynthesis ==
    op \in SynthOps =>
        /\ (Succeeded("blueprints") /\ args.blueprint_id \notin BlueprintIds) =>
              /\ pc = "done"
              /\ result.kind = "raised"
              /\ result.error = "not_found_blueprint"
              /\ calls["providers"] = 0
              /\ calls["variants"] = 0
              /\ template = NoTemplate
              /\ files = 0
        /\ (Succeeded("providers") /\ args.print_provider_id \notin ProviderIds) =>
              /\ pc = "done"
              /\ result.kind = "raised"
              /\ result.error = "not_found_provider"
              /\ calls["variants"] = 0
              /\ template = NoTemplate
              /\ files = 0

\* the blueprint was found, the provider is missing from a non-empty listing
C6_Witness ==
    /\ op = "generate_product_template"
    /\ args.blueprint_id \in BlueprintIds
    /\ Len(providers) > 0
    /\ args.print_provider_id \notin ProviderIds
    /\ result.kind = "raised"
    /\ result.error = "not_found_provider"

C8_PrintAreaIdsDeclared ==
    template.kind = "template" =>
        \A a \in 1..Len(template.print_areas) :
            \A j \in 1..Len(template.print_areas[a].variant_ids) :
                \E k \in 1..Len(template.variants) :
                    template.variants[k].id = template.print_areas[a].variant_ids[j]

\* a bulk descriptor built from a listing whose first variant has no id
C8_Witness ==
    /\ op = Bulk
    /\ pc = "built"
    /\ template.kind = "template"
    /\ templateSrc = <<2>>
    /\ variants[1].id = 0
    /\ template.print_areas[1].variant_ids = <<template.variants[1].id>>

(***************************************************************************)
(* C9 (as stated): every descriptor has exactly one variant marked         *)
(* is_default and that variant is built from the first variant of the      *)
(* fetched list.                                                           *)
(***************************************************************************)
C9_SoleDefaultIsFirstFetched ==
    template.kind = "template" =>
        LET D == {k \in 1..Len(template.variants) : template.variants[k].is_default}
        IN  /\ Cardinality(D) = 1
            /\ \A k \in D : templateSrc[k] = 1

(***************************************************************************)
(* C9 (amended): in every descriptor the first variant is marked           *)
(* is_default, and a variant is marked is_default exactly when its id      *)
(* equals the id of the first variant; the first variant is built from the *)
(* first fetched variant (generate_template, generate_product_template) or *)
(* from the first fetched variant that carries an id (bulk).  So exactly   *)
(* one variant is the default, built from the first fetched variant,       *)
(* whenever every fetched variant carries an id of its own.                *)
(***************************************************************************)
C9_DefaultsShareFirstId ==
    (pc = "built" /\ template.kind = "template") =>
        LET D == {k \in 1..Len(template.variants) : template.variants[k].is_default}
            src == templateSrc[1]
        IN  /\ Len(template.variants) >= 1
            /\ 1 \in D
            /\ \A k \in 1..Len(template.variants) :
                  k \in D <=> template.variants[k].id = template.variants[1].id
            /\ IF op = Bulk
               THEN /\ variants[src].id # 0
                    /\ \A j \in 1..(src - 1) : variants[j].id = 0
                    /\ template.variants[1].id = variants[src].id
               ELSE src = 1
            /\ (\A i, j \in 1..Len(variants) :
                   variants[i].id # 0 /\ (i # j => variants[i].id # variants[j].id)) =>
                  /\ Cardinality(D) = 1
                  /\ \A k \in D : templateSrc[k] = 1

\* generate_product_template on two variants with ids of their own
C9_Witness ==
    /\ pc = "built"
    /\ op = "generate_product_template"
    /\ Len(variants) = 2
    /\ variants[1].id = 2
    /\ variants[2].id = 1
    /\ template.variants[1].is_default
    /\ ~template.variants[2].is_default

(***************************************************************************)
(* Product submission (services/product_service.py,                       *)
(* services/printify_api.py, step2_upload_product.py)                     *)
(***************************************************************************)
AngleValues == {0, 90}

\* the angle of a placeholder image in a descriptor file: a missing key, a
\* JSON integer, a JSON float (whole, or whole plus a fraction when not
\* exact), or a non-numeric string
Angles ==
    {[kind |-> "absent", whole |-> 0, exact |-> TRUE],
     [kind |-> "text", whole |-> 0, exact |-> TRUE]}
        \cup [kind : {"int"}, whole : AngleValues, exact : {TRUE}]
        \cup [kind : {"float"}, whole : AngleValues, exact : BOOLEAN]

IntAngle(n) == [kind |-> "int", whole |-> n, exact |-> TRUE]

\* a value the request model or a conversion rejects
Invalid == [kind |-> "invalid"]

\* the pydantic major versions the build may run on
PydanticVersions == {"v1", "v2"}

\* a mutant: the angle is passed through as given
KeepAngle(angle, version) ==
    IF angle.kind = "absent" THEN IntAngle(0) ELSE angle

\* PlaceholderImage.angle: int = 0 -- the field's validation.  Version 1
\* truncates any float, version 2 accepts a float only when it is whole.
PydanticInt(angle, version) ==
    CASE angle.kind = "absent" -> IntAngle(0)
      [] angle.kind = "int"    -> angle
      [] angle.kind = "float"  ->
             IF angle.exact \/ version = "v1" THEN IntAngle(angle.whole) ELSE Invalid
      [] OTHER                 -> Invalid

\* int(image.get('angle', 0))
Step2Int(angle) ==
    CASE angle.kind = "absent" -> IntAngle(0)
      [] angle.kind = "int"    -> angle
      [] angle.kind = "float"  -> IntAngle(angle.whole)
      [] OTHER                 -> Invalid

\* variant.get("options", []) validated as List[VariantOption]: a mapping
\* (or any other non-list value) is rejected, nothing is converted
PydanticOptions(options) ==
    CASE options.kind = "absent" -> [kind |-> "list", items |-> <<>>]
      [] options.kind = "list"   -> options
      [] OTHER                   -> Invalid

\* "Fix variant options format": the loop over variant['options'].  A
\* mapping is iterated by its keys, a bare number cannot be iterated.
Step2Options(options) ==
    CASE options.kind = "absent" -> [kind |-> "omitted", items |-> <<>>]
      [] options.kind = "list"   -> options
      [] options.kind = "map"    ->
             [kind |-> "list",
              items |-> [i \in 1..Len(options.items) |->
                            [id |-> options.items[i].key,
                             value |-> options.items[i].key]]]
      [] OTHER                   -> Invalid

\* sales_channel_properties in a descriptor file
ChannelProperties == {"absent", "null", "list"}

\* the content of a descriptor file: one variant, one print area with one
\* placeholder image
Descriptors ==
    [options : OptionsDomain, angle : Angles, sales_channel_properties : ChannelProperties]

\* PrintifyApiClient.convert_product_json_to_request: the CreateProductRequest
\* built, or Invalid when its validation fails
ConvertProductJsonToRequest(product_json, version) ==
    LET options == PydanticOptions(product_json.options)
        angle == PydanticInt(product_json.angle, version)
    IN  IF options = Invalid \/ angle = Invalid THEN Invalid
        ELSE [kind |-> "request",
              options |-> options,
              angle |-> angle,
              sales_channel_properties |->
                  IF product_json.sales_channel_properties = "list" THEN "list" ELSE "None"]

\* a mutant: None-valued fields are serialised as null
DictKeepNone(request) ==
    [options |-> request.options,
     angle |-> request.angle,
     sales_channel_properties |->
         IF request.sales_channel_properties = "None" THEN "null" ELSE "list"]

\* product_data.dict(exclude_none=True)
DictExcludeNone(request) ==
    [options |-> request.options,
     angle |-> request.angle,
     sales_channel_properties |->
         IF request.sales_channel_properties = "None" THEN "omitted" ELSE "list"]

\* upload_product: product_data after "Update all print areas" and "Fix
\* variant options format", or Invalid when one of them raises
Step2Body(product_data) ==
    LET options == Step2Options(product_data.options)
        angle == Step2Int(product_data.angle)
    IN  IF options = Invalid \/ angle = Invalid THEN Invalid
        ELSE [options |-> options,
              angle |-> angle,
              sales_channel_properties |->
                  IF product_data.sales_channel_properties = "absent"
                  THEN "omitted"
                  ELSE product_data.sales_channel_properties]

Request(method, endpoint, body) == [method |-> method, endpoint |-> endpoint, body |-> body]

NoBody == [kind |-> "none"]

SubmitOps == {"create_product_from_file", "upload_product"}

SubmitInit ==
    /\ op \in SubmitOps
    /\ pc = "start"
    /\ args \in [api_token : {ConfigToken}, product_data : Descriptors,
                 pydantic : PydanticVersions]
    /\ api_client = IF op = "create_product_from_file" THEN Client(ConfigToken, "1")
                                                       ELSE NoClient
    /\ blueprints = <<>>
    /\ providers = <<>>
    /\ bi = 0
    /\ pi = 0
    /\ variants = <<>>
    /\ NothingDone
    /\ OptIdle

\* ProductService.create_product_from_file: read, validate, convert, create
CreateProductFromFile ==
    /\ pc = "start"
    /\ op = "create_product_from_file"
    /\ LET request == ConvertProductJsonToRequest(args.product_data, args.pydantic)
       IN  \/ /\ result' = Raised("io")
              /\ UNCHANGED sent
           \/ /\ request = Invalid
              /\ result' = Raised("validation")
              /\ UNCHANGED sent
           \/ /\ request # Invalid
              /\ sent' = Append(sent, Request("POST", "products", DictExcludeNone(request)))
              /\ \E ok \in BOOLEAN :
                    result' = IF ok THEN Returned("product") ELSE Raised("transport")
    /\ pc' = "done"
    /\ UNCHANGED <<op, args, api_client, calls, failed, slept, blueprints, providers,
                   bi, pi, wire, variants, template, templateSrc, files, total_templates,
                   total_blueprints, manifest, skips, listed, withProviders, suggestions,
                   sampled_blueprints>>
    /\ UNCHANGED optVars

\* upload_product past its file checks: two image uploads, the descriptor
\* update, the shop lookup and the product request; every failure is
\* caught and None is returned
UploadProduct ==
    /\ pc = "start"
    /\ op = "upload_product"
    /\ LET body == Step2Body(args.product_data)
           upload == Request("POST", "uploads", NoBody)
           shops == Request("GET", "shops", NoBody)
       IN  \/ /\ sent' = sent \o <<upload>>
              /\ result' = Returned("None")
           \/ /\ sent' = sent \o <<upload, upload>>
              /\ result' = Returned("None")
           \/ /\ body = Invalid
              /\ sent' = sent \o <<upload, upload>>
              /\ result' = Returned("None")
           \/ /\ body # Invalid
              /\ \E resp \in FirstUseShopsResponses :
                    IF resp.shape = "error" \/ Len(GetShops(resp)) = 0
                    THEN /\ sent' = sent \o <<upload, upload, shops>>
                         /\ result' = Returned("None")
                    ELSE /\ sent' = sent \o <<upload, upload, shops,
                                              Request("POST", "products", body)>>
                         /\ \E ok \in BOOLEAN :
                               result' = IF ok THEN Returned("upload_results")
                                               ELSE Returned("None")
    /\ pc' = "done"
    /\ UNCHANGED <<op, args, api_client, calls, failed, slept, blueprints, providers,
                   bi, pi, wire, variants, template, templateSrc, files, total_templates,
                   total_blueprints, manifest, skips, listed, withProviders, suggestions,
                   sampled_blueprints>>
    /\ UNCHANGED optVars

SubmitNext == CreateProductFromFile \/ UploadProduct

SpecSubmit == SubmitInit /\ [][SubmitNext]_vars

\* the product creation requests sent
ProductRequests == {i \in 1..Len(sent) : sent[i].endpoint = "products"}

(***************************************************************************)
(* C11: on the path create_product_from_file ->                            *)
(* convert_product_json_to_request -> create_product, a readable           *)
(* descriptor whose variant has a mapping-typed options value (and an      *)
(* integer angle) is submitted, and the body of the create request carries *)
(* the options as the list [{id:1,value:v1}, ..., {id:n,value:vn}], never  *)
(* as a mapping.                                                           *)
(***************************************************************************)
C11_MappingOptionsConverted ==
    (/\ op = "create_product_from_file"
     /\ pc = "done"
     /\ args.product_data.options.kind = "map"
     /\ args.product_data.angle.kind = "int"
     /\ result # Raised("io")) =>
        /\ ProductRequests # {}
        /\ \A i \in ProductRequests :
              /\ sent[i].body.options.kind = "list"
              /\ sent[i].body.options.items =
                     [k \in 1..Len(args.product_data.options.items) |->
                         [id |-> k, value |-> StrOf(args.product_data.options.items[k].value)]]

(***************************************************************************)
(* C12: on both submission paths (create_product_from_file and             *)
(* upload_product) the placeholder image angle in the body of every        *)
(* product creation request is an integer; an angle given as a whole       *)
(* float (0.0) is sent as the integer of the same value (0).               *)
(***************************************************************************)
C12_AngleIsInteger ==
    op \in SubmitOps =>
        \A i \in ProductRequests :
            /\ sent[i].body.angle.kind = "int"
            /\ (args.product_data.angle.kind = "float" /\ args.product_data.angle.exact) =>
                  sent[i].body.angle = IntAngle(args.product_data.angle.whole)

\* create_product_from_file submitted a descriptor whose angle is 0.0
C12_Witness ==
    /\ op = "create_product_from_file"
    /\ pc = "done"
    /\ args.product_data.angle = [kind |-> "float", whole |-> 0, exact |-> TRUE]
    /\ ProductRequests # {}
    /\ sent[1].body.angle = IntAngle(0)
    /\ result = Returned("product")

(***************************************************************************)
(* C18: the body of the request sent by create_product never carries       *)
(* sales_channel_properties (its only optional field) as null: when the    *)
(* descriptor has no sales_channel_properties, or has it as null, the key  *)
(* is left out of the body.                                                *)
(***************************************************************************)
C18_NoNullOptionalField ==
    op = "create_product_from_file" =>
        \A i \in ProductRequests :
            /\ sent[i].body.sales_channel_properties # "null"
            /\ args.product_data.sales_channel_properties \in {"absent", "null"} =>
                  sent[i].body.sales_channel_properties = "omitted"

\* a descriptor with "sales_channel_properties": null was submitted
C18_Witness ==
    /\ op = "create_product_from_file"
    /\ pc = "done"
    /\ args.product_data.sales_channel_properties = "null"
    /\ ProductRequests # {}
    /\ sent[1].body.sales_channel_properties = "omitted"

(***************************************************************************)
(* Specification SpecHeuristics: the categorisers                          *)
(* (utils/dynamic_template_helper.py, utils/ai_template_helper.py) and the *)
(* popularity score, applied to one blueprint / provider pair              *)
(***************************************************************************)
MaxKeywords == 2      \* rule keywords contained in one title

\* the ordered keyword rules of the categorisers: the keywords looked for in
\* the title, those looked for in the description, and the category
CategoryRules ==
    <<[title |-> {"t-shirt", "tee"}, description |-> {"t-shirt"}, category |-> "t-shirts"],
      [title |-> {"hoodie", "sweatshirt"}, description |-> {}, category |-> "hoodies"],
      [title |-> {"mug", "cup"}, description |-> {}, category |-> "mugs"],
      [title |-> {"poster", "print"}, description |-> {}, category |-> "posters"],
      [title |-> {"phone", "case"}, description |-> {}, category |-> "phone-cases"],
      [title |-> {"bag", "tote"}, description |-> {}, category |-> "bags"],
      [title |-> {"hat", "cap"}, description |-> {}, category |-> "hats"],
      [title |-> {"tank", "sleeveless"}, description |-> {}, category |-> "tank-tops"],
      [title |-> {"sticker"}, description |-> {}, category |-> "stickers"],
      [title |-> {"pillow"}, description |-> {}, category |-> "pillows"],
      [title |-> {"towel"}, description |-> {}, category |-> "towels"],
      [title |-> {"sock"}, description |-> {}, category |-> "socks"],
      [title |-> {"jacket"}, description |-> {}, category |-> "jackets"],
      [title |-> {"dress"}, description |-> {}, category |-> "dresses"],
      [title |-> {"pant", "legging"}, description |-> {}, category |-> "pants"]>>

\* the rules that match a title / description
MatchingRules(x) ==
    {i \in 1..Len(CategoryRules) :
        \/ CategoryRules[i].title \cap x.title # {}
        \/ CategoryRules[i].description \cap x.description # {}}

\* a mutant: the last matching rule decides
CategorizeByLastMatch(tmpl) ==
    IF MatchingRules(tmpl) = {} THEN "other"
    ELSE CategoryRules[CHOOSE i \in MatchingRules(tmpl) :
                          \A j \in MatchingRules(tmpl) : j <= i].category

\* AITemplateHelper._categorize_template
CategorizeTemplate(tmpl) ==
    LET t == tmpl.title
        d == tmpl.description
    IN  IF "t-shirt" \in t \/ "tee" \in t \/ "t-shirt" \in d THEN "t-shirts"
        ELSE IF "hoodie" \in t \/ "sweatshirt" \in t THEN "hoodies"
        ELSE IF "mug" \in t \/ "cup" \in t THEN "mugs"
        ELSE IF "poster" \in t \/ "print" \in t THEN "posters"
        ELSE IF "phone" \in t \/ "case" \in t THEN "phone-cases"
        ELSE IF "bag" \in t \/ "tote" \in t THEN "bags"
        ELSE IF "hat" \in t \/ "cap" \in t THEN "hats"
        ELSE IF "tank" \in t \/ "sleeveless" \in t THEN "tank-tops"
        ELSE IF "sticker" \in t THEN "stickers"
        ELSE IF "pillow" \in t THEN "pillows"
        ELSE IF "towel" \in t THEN "towels"
        ELSE IF "sock" \in t THEN "socks"
        ELSE IF "jacket" \in t THEN "jackets"
        ELSE IF "dress" \in t THEN "dresses"
        ELSE IF "pant" \in t \/ "legging" \in t THEN "pants"
        ELSE "other"

\* the titles: the rule keywords their lower-cased text contains
Titles ==
    {t \in SUBSET (UNION {CategoryRules[i].title : i \in 1..Len(CategoryRules)}) :
        Cardinality(t) <= MaxKeywords}

\* a provider's location: missing, a string (given lower-cased), or a
\* structured value with a country field
Locations ==
    {[kind |-> "none", text |-> ""]}
        \cup [kind : {"str"}, text : {"united states", "austin, united states", "us", "germany"}]
        \cup [kind : {"dict"}, text : {"US", "us", "United States", "DE"}]

\* a mutant: the structured country field is not looked at
ScoreWithoutCountry(blueprint, provider) ==
    50 + (IF blueprint.brand \cap {"gildan", "champion", "bella+canvas", "next level"} # {}
          THEN 20 ELSE 0)
       + (IF CategorizeBlueprint(blueprint) \in {"t-shirts", "hoodies", "mugs"} THEN 15 ELSE 0)
       + (IF provider.location.kind = "str" /\ provider.location.text
                 \in {"united states", "austin, united states"}
          THEN 10 ELSE 0)

\* DynamicTemplateHelper._calculate_popularity_score; a brand is the set of
\* popular brand names its lower-cased text contains
CalculatePopularityScore(blueprint, provider) ==
    50 + (IF blueprint.brand \cap {"gildan", "champion", "bella+canvas", "next level"} # {}
          THEN 20 ELSE 0)
       + (IF CategorizeBlueprint(blueprint) \in {"t-shirts", "hoodies", "mugs"} THEN 15 ELSE 0)
       + (IF provider.location.kind = "str"
          THEN IF provider.location.text \in {"united states", "austin, united states"}
               THEN 10 ELSE 0
          ELSE IF provider.location.kind = "dict" /\ provider.location.text = "US"
               THEN 10 ELSE 0)

HeuristicOps == {"_categorize_blueprint", "_categorize_template", "_calculate_popularity_score",
                 "_estimate_price", "_estimate_weight"}

\* the category strings the estimates are asked for: the categories of the
\* rules, "other", and strings that are no key of the tables
Categories ==
    {CategoryRules[i].category : i \in 1..Len(CategoryRules)}
        \cup {"other", "", "T-Shirts", "shoes", "tshirts"}

HeuristicsInit ==
    /\ op \in HeuristicOps
    /\ pc = "start"
    /\ IF op = "_calculate_popularity_score"
       THEN args \in [title : Titles, description : {{}},
                      brand : {{}, {"gildan"}, {"next level"}}, location : Locations]
       ELSE IF op \in {"_estimate_price", "_estimate_weight"}
       THEN args \in [category : Categories]
       ELSE args \in [title : Titles, description : SUBSET {"t-shirt", "tee"},
                      brand : {{}}, location : {[kind |-> "none", text |-> ""]}]
    /\ api_client = NoClient
    /\ blueprints = <<>>
    /\ providers = <<>>
    /\ bi = 0
    /\ pi = 0
    /\ variants = <<>>
    /\ NothingDone
    /\ OptIdle

\* one call of a categoriser or of the score
Heuristic(name, value) ==
    /\ pc = "start"
    /\ op = name
    /\ result' = Returned(value)
    /\ pc' = "done"
    /\ UNCHANGED <<op, args, api_client, calls, failed, slept, blueprints, providers,
                   bi, pi, wire, variants, template, templateSrc, files, total_templates,
                   total_blueprints, manifest, skips, listed, withProviders>>
    /\ UNCHANGED optVars
    /\ UNCHANGED reqVars

CategorizeBlueprintCall == Heuristic("_categorize_blueprint", CategorizeBlueprint(args))

CategorizeTemplateCall == Heuristic("_categorize_template", CategorizeTemplate(args))

PopularityScoreCall ==
    Heuristic("_calculate_popularity_score", CalculatePopularityScore(args, args))

EstimatePriceCall == Heuristic("_estimate_price", EstimatePrice(args.category))

EstimateWeightCall == Heuristic("_estimate_weight", EstimateWeight(args.category))

HeuristicsNext ==
    \/ CategorizeBlueprintCall
    \/ CategorizeTemplateCall
    \/ PopularityScoreCall
    \/ EstimatePriceCall
    \/ EstimateWeightCall

SpecHeuristics == HeuristicsInit /\ [][HeuristicsNext]_vars

(***************************************************************************)
(* C13: both categorisers return the category of the earliest rule of the  *)
(* ordered keyword rule list that matches the title / description, even if *)
(* later rules match too, and "other" exactly when no rule matches.        *)
(***************************************************************************)
C13_FirstMatchingRuleWins ==
    (op \in {"_categorize_blueprint", "_categorize_template"} /\ pc = "done") =>
        /\ result.value = "other" <=> MatchingRules(args) = {}
        /\ \A i \in MatchingRules(args) :
              (\A j \in MatchingRules(args) : i <= j) =>
                  result.value = CategoryRules[i].category

\* a title containing both "tank" and "dress" was classified by the tank rule
C13_Witness ==
    /\ op = "_categorize_template"
    /\ pc = "done"
    /\ args.title = {"tank", "dress"}
    /\ result.value = "tank-tops"

(***************************************************************************)
(* C14: the popularity score of a blueprint / provider pair is 50, plus 20 *)
(* when the lower-cased brand contains a popular brand, plus 15 when the   *)
(* category is t-shirts, hoodies or mugs, plus 10 when the location string *)
(* contains "united states" (case-insensitively) or the structured         *)
(* location's country field is "US"; Gildan / t-shirts / United States     *)
(* scores 95 and every score lies in 50..95.                               *)
(***************************************************************************)
C14_PopularityScore ==
    (op = "_calculate_popularity_score" /\ pc = "done") =>
        LET brand == args.brand # {}
            category == \E i \in 1..3 : \E j \in MatchingRules(args) :
                            /\ \A k \in MatchingRules(args) : j <= k
                            /\ i = j
            location == \/ args.location.kind = "str"
                           /\ args.location.text \in {"united states", "austin, united states"}
                        \/ args.location.kind = "dict" /\ args.location.text = "US"
        IN  /\ result.value = 50 + (IF brand THEN 20 ELSE 0) + (IF category THEN 15 ELSE 0)
                                 + (IF location THEN 10 ELSE 0)
            /\ result.value \in 50..95
            /\ (brand /\ category /\ location) => result.value = 95

\* a Gildan t-shirt from a provider whose structured location has country
\* "US" scored 95
C14_Witness ==
    /\ op = "_calculate_popularity_score"
    /\ pc = "done"
    /\ args.brand = {"gildan"}
    /\ args.title = {"tee"}
    /\ args.location = [kind |-> "dict", text |-> "US"]
    /\ result.value = 95

(***************************************************************************)
(* Specification SpecSuggest: DynamicTemplateHelper.get_product_suggestions *)
(* and search_products, each run as one step over a catalog                *)
(***************************************************************************)
SuggestionsCap == 20
SearchCap == 15

\* the sizes of the catalogs get_blueprints answers with
CatalogSizes == {0, 3, 8, 11, 21}

\* the catalog: blueprint i
CatalogBlueprint(i) ==
    CASE i % 3 = 1 -> [id |-> i, title |-> {"tee"}, description |-> {}, brand |-> {"gildan"}]
      [] i % 3 = 2 -> [id |-> i, title |-> {"mug"}, description |-> {}, brand |-> {}]
      [] OTHER     -> [id |-> i, title |-> {"dress"}, description |-> {}, brand |-> {"gildan"}]

\* the catalog: the print providers of blueprint i
CatalogProviders(i) ==
    IF i % 4 = 0 THEN <<>>
    ELSE IF i % 2 = 0
    THEN <<[id |-> 2, location |-> [kind |-> "str", text |-> "germany"]],
           [id |-> 1, location |-> [kind |-> "dict", text |-> "US"]],
           [id |-> 3, location |-> [kind |-> "str", text |-> "united states"]]>>
    ELSE <<[id |-> 1, location |-> [kind |-> "dict", text |-> "US"]],
           [id |-> 2, location |-> [kind |-> "str", text |-> "germany"]],
           [id |-> 4, location |-> [kind |-> "none", text |-> ""]],
           [id |-> 3, location |-> [kind |-> "str", text |-> "united states"]]>>

\* a mutant: the sample is drawn with replacement
SampleWithReplacement(array, size) ==
    IF Len(array) <= size THEN {array}
    ELSE LET n == Len(array)
         IN  {[k \in 1..size |-> array[((k * r) % n) + 1]] : r \in 0..n - 1}

\* _sample_array: the array itself when it is short enough, else the first
\* `size` entries of a shuffle; the shuffles drawn are the rotations of the
\* array and their reversals
SampleArray(array, size) ==
    IF Len(array) <= size THEN {array}
    ELSE LET n == Len(array)
         IN  {[k \in 1..size |-> array[((k + r - 1) % n) + 1]] : r \in 0..n - 1}
                 \cup {[k \in 1..size |-> array[((n - k + r) % n) + 1]] : r \in 0..n - 1}

\* str.lower on the search keywords
Lower(keyword) ==
    CASE keyword = "Mug" -> "mug"
      [] keyword = "TEE" -> "tee"
      [] OTHER           -> keyword

\* a mutant: every blueprint matches
MatchesAlways(blueprint, keywords) == TRUE

\* the `matches` test of search_products on the lower-cased title,
\* description and brand; the empty keyword is contained in every text
Matches(blueprint, keywords) ==
    \E keyword \in keywords :
        \/ Lower(keyword) = ""
        \/ Lower(keyword) \in blueprint.title
        \/ Lower(keyword) \in blueprint.description
        \/ Lower(keyword) \in blueprint.brand

\* a mutant: the candidates are left in collection order
Unsorted(list) == list

\* list.sort(key=popularity_score, reverse=True): stable, highest first
SortByScore(list) ==
    LET rank(i) == Cardinality({j \in 1..Len(list) :
                        \/ list[j].popularity_score > list[i].popularity_score
                        \/ list[j].popularity_score = list[i].popularity_score /\ j < i}) + 1
    IN  [k \in 1..Len(list) |-> list[CHOOSE i \in 1..Len(list) : rank(i) = k]]

\* the dictionary appended for one blueprint / provider pair
Suggestion(blueprint, provider) ==
    [blueprint_id |-> blueprint.id,
     print_provider_id |-> provider.id,
     category |-> CategorizeBlueprint(blueprint),
     estimated_price |-> EstimatePrice(CategorizeBlueprint(blueprint)),
     popularity_score |-> CalculatePopularityScore(blueprint, provider)]

\* the loop over the blueprints: the first `top` providers of each
\* blueprint whose provider fetch succeeds (that of blueprint `failing`
\* fails), less the suggestions above a truthy max_price
Collect(bps, failing, top, max_price) ==
    LET Kept(s) == ~(max_price.given /\ max_price.value # 0
                        /\ s.estimated_price > max_price.value)
        Of(bp) == IF bp.id = failing THEN <<>>
                  ELSE LET ps == CatalogProviders(bp.id)
                           n == IF Len(ps) < top THEN Len(ps) ELSE top
                       IN  SelectSeq([k \in 1..n |-> Suggestion(bp, ps[k])], Kept)
        upTo[k \in 0..Len(bps)] == IF k = 0 THEN <<>> ELSE upTo[k - 1] \o Of(bps[k])
    IN  upTo[Len(bps)]

NoMaxPrice == [given |-> FALSE, value |-> 0]

SearchKeywords == {"Mug", "TEE", "gildan", "zzz", ""}

SuggestInit ==
    /\ op \in {"get_product_suggestions", "search_products"}
    /\ pc = "start"
    /\ IF op = "get_product_suggestions"
       THEN args \in [api_token : {ConfigToken}, category : {"", "t-shirts", "mugs"},
                      max_price : {NoMaxPrice} \cup [given : {TRUE}, value : {0, 1500, 2500}],
                      keywords : {{}}]
       ELSE args \in [api_token : {ConfigToken}, category : {""}, max_price : {NoMaxPrice},
                      keywords : {k \in SUBSET SearchKeywords : Cardinality(k) <= MaxKeywords}]
    /\ api_client \in {NoClient, Client(ConfigToken, "1")}
    /\ blueprints = <<>>
    /\ providers = <<>>
    /\ bi = 0
    /\ pi = 0
    /\ variants = <<>>
    /\ NothingDone
    /\ OptIdle

\* _filter_blueprints_by_category under a truthy category
FilterBlueprintsByCategory(bps, category) ==
    LET Is(bp) == CategorizeBlueprint(bp) = category
    IN  IF category # "" THEN SelectSeq(bps, Is) ELSE bps

\* the sizes asked of _sample_array are min(10, len) and min(20, len)
SuggestionsSample == 10
SearchSample == 20

\* the blueprints an operation holds after get_blueprints and, in
\* get_product_suggestions, the category filter
HeldBlueprints(name, bps) ==
    IF name = "get_product_suggestions"
    THEN FilterBlueprintsByCategory(bps, args.category)
    ELSE bps

\* the samples an operation can draw from the blueprints it holds
SampledBlueprints(name, bps) ==
    LET size == IF name = "get_product_suggestions" THEN SuggestionsSample ELSE SearchSample
    IN  SampleArray(bps, IF Len(bps) < size THEN Len(bps) ELSE size)

\* the blueprints search_products fetches the providers of: those of the
\* sample that match a keyword
MatchingBlueprints(sample) ==
    LET Hit(bp) == Matches(bp, args.keywords)
    IN  SelectSeq(sample, Hit)

\* one run of a suggestion operation: _init_api_client, get_blueprints, the
\* selection of the blueprints to visit, one provider fetch per visited
\* blueprint, the sort and the cut
Suggest(name, top, cap) ==
    /\ pc = "start"
    /\ op = name
    /\ \E shops \in FirstUseShopsResponses :
          LET client == IF api_client = NoClient
                        THEN CreateWithDynamicShopId(args.api_token, shops)
                        ELSE api_client
              first == IF api_client = NoClient
                       THEN <<Request("GET", "shops", NoBody)>>
                       ELSE <<>>
              list == Request("GET", "blueprints", NoBody)
          IN  IF client.kind = "raised"
              THEN /\ result' = client
                   /\ sent' = sent \o first
                   /\ failed' = IF shops.shape = "error" THEN failed \cup {"shops"} ELSE failed
                   /\ UNCHANGED <<api_client, blueprints, suggestions, sampled_blueprints>>
              ELSE /\ api_client' = client
                   /\ \E listing \in ListingResponses(
                              {[i \in 1..n |-> CatalogBlueprint(i)] : n \in CatalogSizes}) :
                         IF listing.shape = "error"
                         THEN /\ result' = Raised("transport")
                              /\ sent' = sent \o first \o <<list>>
                              /\ failed' = failed \cup {"blueprints"}
                              /\ UNCHANGED <<blueprints, suggestions, sampled_blueprints>>
                         ELSE \E sample \in SampledBlueprints(name,
                                                 HeldBlueprints(name, listing.items)) :
                              \E failing \in 0..2 :
                                 LET visited == IF name = "search_products"
                                                THEN MatchingBlueprints(sample)
                                                ELSE sample
                                     collected == Collect(visited, failing, top, args.max_price)
                                     n == IF Len(collected) < cap THEN Len(collected) ELSE cap
                                 IN  /\ blueprints' = HeldBlueprints(name, listing.items)
                                     /\ sampled_blueprints' = sample
                                     /\ failed' = IF \E k \in 1..Len(visited) :
                                                        visited[k].id = failing
                                                   THEN failed \cup {"providers"}
                                                   ELSE failed
                                     /\ suggestions' = collected
                                     /\ sent' = sent \o first \o <<list>> \o
                                            [k \in 1..Len(visited) |->
                                                Request("GET", "print_providers",
                                                        [kind |-> "blueprint",
                                                         id |-> visited[k].id])]
                                     /\ result' = Returned(SubSeq(SortByScore(collected), 1, n))
    /\ pc' = "done"
    /\ UNCHANGED <<op, args, calls, slept, providers, bi, pi, wire, variants,
                   template, templateSrc, files, total_templates, total_blueprints,
                   manifest, skips, listed, withProviders>>
    /\ UNCHANGED optVars

GetProductSuggestions == Suggest("get_product_suggestions", 3, SuggestionsCap)

SearchProducts == Suggest("search_products", 2, SearchCap)

SuggestNext == GetProductSuggestions \/ SearchProducts

SpecSuggest == SuggestInit /\ [][SuggestNext]_vars

\* the list a suggestion operation returned
Returns(name) == op = name /\ pc = "done" /\ result.kind = "returned"

(***************************************************************************)
(* C15: get_product_suggestions returns at most 20 entries and             *)
(* search_products at most 15; the entries are collected candidates in     *)
(* order of non-increasing popularity_score, and no candidate left out has *)
(* a strictly higher score than a returned one.                            *)
(***************************************************************************)
C15_SortedAndCapped ==
    \A name \in {"get_product_suggestions", "search_products"} :
        Returns(name) =>
            LET list == result.value
                cap == IF name = "search_products" THEN SearchCap ELSE SuggestionsCap
                returned == {list[i] : i \in 1..Len(list)}
                collected == {suggestions[i] : i \in 1..Len(suggestions)}
            IN  /\ Len(list) <= cap
                /\ Len(list) = Len(suggestions) \/ Len(list) = cap
                /\ returned \subseteq collected
                /\ \A i \in 1..Len(list) - 1 :
                      list[i].popularity_score >= list[i + 1].popularity_score
                /\ \A dropped \in collected \ returned : \A kept \in returned :
                      dropped.popularity_score <= kept.popularity_score

\* more than 20 candidates of differing scores were collected, 20 returned
C15_Witness ==
    /\ Returns("get_product_suggestions")
    /\ Len(suggestions) > SuggestionsCap
    /\ Len(result.value) = SuggestionsCap
    /\ result.value[1].popularity_score > result.value[SuggestionsCap].popularity_score
    /\ \E i \in 1..Len(suggestions) - 1 :
          suggestions[i].popularity_score < suggestions[i + 1].popularity_score

(***************************************************************************)
(* C16: with a max_price supplied to get_product_suggestions (any integer  *)
(* from 0 up) every returned suggestion has estimated_price <= max_price,  *)
(* and with a category supplied every returned suggestion has it.          *)
(***************************************************************************)
C16_PriceAndCategoryFilters ==
    Returns("get_product_suggestions") =>
        \A i \in 1..Len(result.value) :
            /\ args.max_price.given => result.value[i].estimated_price <= args.max_price.value
            /\ args.category # "" => result.value[i].category = args.category

(***************************************************************************)
(* C17: every entry search_products returns belongs to a blueprint that    *)
(* has a supplied keyword, lower-cased, as a substring of its lower-cased  *)
(* title, description or brand, and the providers of a blueprint matching  *)
(* no keyword are never fetched.                                           *)
(***************************************************************************)
C17_OnlyMatchingBlueprints ==
    (op = "search_products" /\ pc = "done") =>
        LET Hit(id) == \E keyword \in args.keywords :
                          \/ Lower(keyword) = ""
                          \/ Lower(keyword) \in CatalogBlueprint(id).title
                                                  \cup CatalogBlueprint(id).description
                                                  \cup CatalogBlueprint(id).brand
        IN  /\ \A i \in 1..Len(sent) :
                  sent[i].endpoint = "print_providers" => Hit(sent[i].body.id)
            /\ result.kind = "returned" =>
                  \A i \in 1..Len(result.value) : Hit(result.value[i].blueprint_id)

\* a search for "Mug" over a catalog with tees, mugs and dresses fetched
\* providers, returned entries, and left the first blueprint (a tee) alone
C17_Witness ==
    /\ Returns("search_products")
    /\ args.keywords = {"Mug"}
    /\ Len(result.value) > 0
    /\ \E i \in 1..Len(sent) : sent[i].endpoint = "print_providers"
    /\ \A i \in 1..Len(sent) : sent[i].endpoint = "print_providers" => sent[i].body.id # 1

(***************************************************************************)
(* Specification SpecClient: one invocation of one PrintifyApiClient       *)
(* operation (services/printify_api.py)                                    *)
(***************************************************************************)
\* the operations: the method, endpoint and request data each hands to
\* _make_request
ClientOperations ==
    {[name |-> "get_shops", method |-> "GET", endpoint |-> "/shops.json", data |-> FALSE],
     [name |-> "get_blueprints", method |-> "GET",
      endpoint |-> "/catalog/blueprints.json", data |-> FALSE],
     [name |-> "get_print_providers", method |-> "GET",
      endpoint |-> "/catalog/blueprints/{blueprint_id}/print_providers.json", data |-> FALSE],
     [name |-> "get_print_provider", method |-> "GET",
      endpoint |-> "/catalog/print_providers/{provider_id}.json", data |-> FALSE],
     [name |-> "get_variants", method |-> "GET",
      endpoint |-> "/catalog/blueprints/{blueprint_id}/print_providers/{print_provider_id}/variants.json",
      data |-> FALSE],
     [name |-> "create_product", method |-> "POST",
      endpoint |-> "/shops/{shop_id}/products.json", data |-> TRUE],
     [name |-> "get_products", method |-> "GET",
      endpoint |-> "/shops/{shop_id}/products.json", data |-> FALSE],
     [name |-> "get_product", method |-> "GET",
      endpoint |-> "/shops/{shop_id}/products/{product_id}.json", data |-> FALSE],
     [name |-> "update_product", method |-> "PUT",
      endpoint |-> "/shops/{shop_id}/products/{product_id}.json", data |-> TRUE],
     [name |-> "delete_product", method |-> "DELETE",
      endpoint |-> "/shops/{shop_id}/products/{product_id}.json", data |-> FALSE],
     [name |-> "publish_product", method |-> "POST",
      endpoint |-> "/shops/{shop_id}/products/{product_id}/publish.json", data |-> TRUE]}

\* what the server or the network does with a request: a 2xx response with
\* a JSON body, a 2xx response whose body is not JSON, a non-2xx response,
\* or no response
Outcomes == {"ok", "not_json", "status", "network"}

\* a mutant: a failed request is sent once more
MakeRequestWithRetry(method, endpoint, data, outcomes) ==
    IF outcomes[1] = "ok"
    THEN [sent |-> <<Request(method, endpoint, data)>>, result |-> Returned("json")]
    ELSE [sent |-> <<Request(method, endpoint, data), Request(method, endpoint, data)>>,
          result |-> IF outcomes[2] = "ok" THEN Returned("json") ELSE Raised(outcomes[2])]

\* _make_request: one call of requests.get / post / put / delete, then
\* raise_for_status and response.json(); a RequestException is logged and
\* raised again
MakeRequest(method, endpoint, data, outcomes) ==
    [sent |-> <<Request(method, endpoint, data)>>,
     result |-> IF outcomes[1] = "ok" THEN Returned("json") ELSE Raised(outcomes[1])]

ClientInit ==
    /\ op \in {o.name : o \in ClientOperations}
    /\ pc = "start"
    /\ args \in [api_token : {ConfigToken}, blueprint_id : 1..MaxBlueprints,
                 print_provider_id : 1..MaxProviders]
    /\ api_client \in {Client(t, "1") : t \in Tokens}
    /\ blueprints = <<>>
    /\ providers = <<>>
    /\ bi = 0
    /\ pi = 0
    /\ variants = <<>>
    /\ NothingDone
    /\ OptIdle

\* one invocation: the operation's single _make_request call, whose
\* failure the operation logs and raises again
ClientCall ==
    /\ pc = "start"
    /\ \E o \in ClientOperations : \E outcomes \in [1..2 -> Outcomes] :
          LET r == MakeRequest(o.method, o.endpoint,
                               IF o.data THEN [kind |-> "json"] ELSE NoBody, outcomes)
          IN  /\ op = o.name
              /\ sent' = sent \o r.sent
              /\ wire' = [shape |-> outcomes[1], items |-> <<>>]
              /\ result' = IF r.result.kind = "returned" THEN Returned(o.name) ELSE r.result
    /\ pc' = "done"
    /\ UNCHANGED <<op, args, api_client, calls, failed, slept, blueprints, providers,
                   bi, pi, variants, template, templateSrc, files, total_templates,
                   total_blueprints, manifest, skips, listed, withProviders, suggestions,
                   sampled_blueprints>>
    /\ UNCHANGED optVars

ClientNext == ClientCall

SpecClient == ClientInit /\ [][ClientNext]_vars

(***************************************************************************)
(* C19: an invocation of a Catalog Client operation issues exactly one     *)
(* HTTP request; when that request fails (no response, or a non-2xx        *)
(* response) the operation raises, and no second request is issued.        *)
(***************************************************************************)
C19_OneRequestNoRetry ==
    (op \in {o.name : o \in ClientOperations} /\ pc = "done") =>
        /\ Len(sent) = 1
        /\ \E o \in ClientOperations :
              o.name = op /\ sent[1].method = o.method /\ sent[1].endpoint = o.endpoint
        /\ wire.shape \in {"status", "network"} => result.kind = "raised"

\* publish_product got a non-2xx response to its one request and raised
C19_Witness ==
    /\ op = "publish_product"
    /\ pc = "done"
    /\ wire.shape = "status"
    /\ Len(sent) = 1
    /\ result = Raised("status")

(***************************************************************************)
(* Specification SpecCli: one subcommand of main.py, from load_config to   *)
(* its exit                                                                *)
(***************************************************************************)
\* the subcommands whose body reads config['printify_shop_id']
ShopSubcommands ==
    {"create", "list_shops", "list_products", "debug_blueprints", "debug_blueprint",
     "debug_structure", "debug_print_provider", "create_with_image", "generate_template",
     "generate_popular_templates", "list_templates", "process_with_images"}

\* the subcommands that hand over to a helper building its own client
HelperSubcommands ==
    {"upload_image", "generate_all_templates", "list_all_templates", "generate_ai_summary",
     "show_ai_context", "discover_products", "search_products",
     "generate_dynamic_template", "show_categories"}

\* the environment: PRINTIFY_API_TOKEN and DEFAULT_PRODUCT_JSON_PATH, each
\* unset ("None") or set
Environments ==
    [PRINTIFY_API_TOKEN : {"None", "", ConfigToken},
     DEFAULT_PRODUCT_JSON_PATH : {"None", "./other.json"}]

\* load_config
LoadConfig(env) ==
    [printify_api_token |-> env.PRINTIFY_API_TOKEN,
     default_product_json_path |-> IF env.DEFAULT_PRODUCT_JSON_PATH = "None"
                                   THEN "./product.json"
                                   ELSE env.DEFAULT_PRODUCT_JSON_PATH]

\* a mutant: nothing is required
ValidateNothing(config) == <<>>

\* validate_config: the missing_vars it raises with (none: it returns)
ValidateConfig(config) ==
    IF config.printify_api_token \in {"None", ""} THEN <<"PRINTIFY_API_TOKEN">> ELSE <<>>

CliInit ==
    /\ op \in ShopSubcommands \cup HelperSubcommands
    /\ pc = "start"
    /\ args \in [env : Environments]
    /\ api_client = NoClient
    /\ blueprints = <<>>
    /\ providers = <<>>
    /\ bi = 0
    /\ pi = 0
    /\ variants = <<>>
    /\ NothingDone
    /\ OptIdle

\* the head of every subcommand: load_config, validate_config; a
\* ValueError is echoed and the process exits with status 1
LoadAndValidate ==
    /\ pc = "start"
    /\ op \in ShopSubcommands \cup HelperSubcommands
    /\ LET missing_vars == ValidateConfig(LoadConfig(args.env))
       IN  IF missing_vars # <<>>
           THEN /\ result' = [kind |-> "raised", error |-> "config", missing |-> missing_vars]
                /\ pc' = "done"
           ELSE /\ result' = result
                /\ pc' = "validated"
    /\ UNCHANGED <<op, args, api_client, calls, failed, slept, blueprints, providers,
                   bi, pi, wire, variants, template, templateSrc, files, total_templates,
                   total_blueprints, manifest, skips, listed, withProviders>>
    /\ UNCHANGED optVars
    /\ UNCHANGED reqVars

\* the rest of a subcommand: the lookup of config['printify_shop_id'],
\* a key load_config never sets, raises; the other subcommands run their
\* helper, which may issue requests (the first one is recorded)
RunSubcommand ==
    /\ pc = "validated"
    /\ IF op \in ShopSubcommands
       THEN /\ result' = Raised("KeyError")
            /\ UNCHANGED sent
       ELSE \E requested \in BOOLEAN : \E ok \in BOOLEAN :
               /\ sent' = IF requested
                          THEN Append(sent, Request("GET", "first", NoBody))
                          ELSE sent
               /\ result' = IF ok THEN Returned("exit 0") ELSE Raised("Exception")
    /\ pc' = "done"
    /\ UNCHANGED <<op, args, api_client, calls, failed, slept, blueprints, providers,
                   bi, pi, wire, variants, template, templateSrc, files, total_templates,
                   total_blueprints, manifest, skips, listed, withProviders, suggestions,
                   sampled_blueprints>>
    /\ UNCHANGED optVars

CliNext == LoadAndValidate \/ RunSubcommand

SpecCli == CliInit /\ [][CliNext]_vars

(***************************************************************************)
(* C20: with the access token unset or empty, every subcommand ends in a   *)
(* configuration error whose message names every missing required setting *)
(* (PRINTIFY_API_TOKEN is the only required one), and no network request   *)
(* is issued.                                                              *)
(***************************************************************************)
C20_ConfigErrorBeforeNetwork ==
    (op \in ShopSubcommands \cup HelperSubcommands
        /\ args.env.PRINTIFY_API_TOKEN \in {"None", ""}) =>
        /\ sent = <<>>
        /\ pc \in {"start", "done"}
        /\ pc = "done" =>
              /\ result.kind = "raised"
              /\ result.error = "config"
              /\ result.missing = <<"PRINTIFY_API_TOKEN">>

\* search_products, run with no token in the environment, ended in the
\* configuration error
C20_Witness ==
    /\ op = "search_products"
    /\ args.env.PRINTIFY_API_TOKEN = "None"
    /\ pc = "done"
    /\ result.kind = "raised"
    /\ result.error = "config"
    /\ sent = <<>>

(***************************************************************************)
(* C21: with the access token configured, a subcommand gets past           *)
(* configuration and client construction and invokes its operation; in     *)
(* particular `create` does not end in a failure raised while its client   *)
(* is being constructed.                                                   *)
(***************************************************************************)
C21_ConfiguredSubcommandRuns ==
    (op \in ShopSubcommands \cup HelperSubcommands
        /\ args.env.PRINTIFY_API_TOKEN = ConfigToken
        /\ pc = "done") =>
        result # Raised("KeyError")

\* the exit status of a subcommand whose helper operation ended with r:
\* an exception is echoed and mapped to sys.exit(1)
ExitStatus(r) == IF r.kind = "raised" THEN 1 ELSE 0

C23_ProviderFailurePropagates ==
    (op \in {"get_product_suggestions", "search_products"} /\ pc = "done"
        /\ "providers" \in failed) =>
        result.kind = "raised"

(***************************************************************************)
(* C24: in every synthesized descriptor each placeholder position is the   *)
(* source placeholder's position in lower case ("front" when the variant   *)
(* carries no placeholder metadata); none contains an upper-case           *)
(* character.                                                              *)
(***************************************************************************)
C24_PositionsLowerCased ==
    (pc = "built" /\ template.kind = "template") =>
        \A a \in 1..Len(template.print_areas) :
            \A k \in 1..Len(template.print_areas[a].placeholders) :
                template.print_areas[a].placeholders[k].position \in {"front", "back"}

(***************************************************************************)
(* C25: after generate_all_templates has completed, get_template_info      *)
(* returns the total_templates and total_blueprints that                   *)
(* generate_all_templates returned, in a record that carries every field   *)
(* the listing reads: total_templates, templates_dir, summary_file and     *)
(* categories.                                                             *)
(***************************************************************************)
C25_ManifestRoundTrip ==
    (op = "get_template_info" /\ pc = "done" /\ Succeeded("write_summary")) =>
        /\ result.value.total_templates = total_templates
        /\ result.value.total_blueprints = total_blueprints
        /\ {"total_templates", "templates_dir", "summary_file", "categories"}
               \subseteq DOMAIN result.value

(***************************************************************************)
(* C26: for every category string that is no key of the price and weight   *)
(* tables, and for "other", the estimated price is 2000 and the estimated  *)
(* weight is 200.                                                          *)
(***************************************************************************)
C26_DefaultEstimates ==
    (pc = "done" /\ op \in {"_estimate_price", "_estimate_weight"}
        /\ args.category \notin {CategoryRules[i].category : i \in 1..Len(CategoryRules)}) =>
        result.value = IF op = "_estimate_price" THEN 2000 ELSE 200

\* the price of a category string that differs from a key only by case was
\* estimated at the default
C26_Witness ==
    /\ pc = "done"
    /\ op = "_estimate_price"
    /\ args.category = "T-Shirts"
    /\ result.value = 2000

(***************************************************************************)
(* C27: in bulk generation every step that ends a provider-level           *)
(* combination takes the provider delay, and every step that ends a        *)
(* blueprint-level iteration takes the blueprint delay before the next     *)
(* remote call, also when the iteration was skipped because its            *)
(* print-provider listing failed.                                          *)
(***************************************************************************)
C27_DelayAfterEveryIteration ==
    [][op = Bulk =>
          /\ (pc \in {"variants", "write"} /\ pc' \in {"variants", "providers", "summary"}) =>
                \E i \in 1..Len(slept') : slept'[i] = "provider_delay"
          /\ (pc \in {"providers", "variants", "write"} /\ pc' = "providers") =>
                \E i \in 1..Len(slept') : slept'[i] = "blueprint_delay"
      ]_vars

(***************************************************************************)
(* C28: generate_template lists the blueprints, then the providers, then   *)
(* the variants, then writes the template file, each step once and only    *)
(* after the one before succeeded and found what it looked for; a          *)
(* transport error, a not-found or an empty variant listing ends the       *)
(* operation with that failure, with no later remote call and no template  *)
(* file written.                                                           *)
(***************************************************************************)
C28_StepsInOrderStopOnFailure ==
    op = "generate_template" =>
        /\ \A s \in {"blueprints", "providers", "variants", "write"} : calls[s] <= 1
        /\ calls["providers"] = 1 =>
              /\ Succeeded("blueprints")
              /\ bi > 0
              /\ blueprints[bi].id = args.blueprint_id
        /\ calls["variants"] = 1 =>
              /\ Succeeded("providers")
              /\ pi > 0
              /\ providers[pi].id = args.print_provider_id
        /\ calls["write"] = 1 => Succeeded("variants") /\ Len(variants) > 0
        /\ (result.kind = "raised" /\ result.error # "io") =>
              /\ pc = "done"
              /\ files = 0
              /\ calls["write"] = 0
              /\ result.error = "transport" => \E s \in failed : failed = {s}
              /\ calls["shops"] = 0
        /\ files = 1 => result.kind = "returned"

\* the provider was not listed for the blueprint: the variants were never
\* requested and no file was written
C28_Witness ==
    /\ op = "generate_template"
    /\ pc = "done"
    /\ result = Raised("not_found_provider")
    /\ calls["providers"] = 1
    /\ calls["variants"] = 0
    /\ calls["write"] = 0
    /\ files = 0

(***************************************************************************)
(* Specification SpecImages: ProductImageProcessor (utils/                 *)
(* product_image_processor.py), one run of process_product_with_images     *)
(***************************************************************************)
MaxImages == 2

\* the image records of a descriptor: the url starts with "http", does not,
\* or is missing ("none"); the name may be missing
Images ==
    [id : {"placeholder"}, url : {"http://x/a.png", "a.png", "none"},
     preview_url : {"http://x/p.png"}, named : BOOLEAN]

\* the answers to an upload request: an asset with or without a url field,
\* a body without an id, or a transport/HTTP failure
UploadResponses == {"asset", "asset_no_url", "no_id", "error"}

\* a mutant: the id is replaced before the upload is known to have worked
ProcessImageIdFirst(image, response) ==
    IF image.url # "http://x/a.png" THEN image
    ELSE IF response \in {"no_id", "error"} THEN [image EXCEPT !.id = "asset"]
    ELSE [image EXCEPT !.id = "asset",
                       !.url = IF response = "asset" THEN "https://cdn/a.png"
                                                     ELSE "https://cdn/p.png",
                       !.preview_url = "https://cdn/p.png"]

\* the body of the image loop of _process_images_in_product with
\* _upload_image_url_to_printify: the record after the iteration
ProcessImage(image, response) ==
    IF image.url # "http://x/a.png" THEN image
    ELSE IF response \in {"no_id", "error"} THEN image
    ELSE [image EXCEPT !.id = "asset",
                       !.url = IF response = "asset" THEN "https://cdn/a.png"
                                                     ELSE "https://cdn/p.png",
                       !.preview_url = "https://cdn/p.png"]

ImagesInit ==
    /\ op = "process_product_with_images"
    /\ pc = "start"
    /\ args \in [api_token : {ConfigToken}, images : SeqsUpTo(Images, MaxImages),
                 sales_channel_properties : BOOLEAN]
    /\ api_client = NoClient
    /\ blueprints = <<>>
    /\ providers = <<>>
    /\ bi = 0
    /\ pi = 0
    /\ variants = <<>>
    /\ NothingDone
    /\ OptIdle

\* process_product_with_images: read the descriptor, upload and replace
\* image by image, drop sales_channel_properties, write the processed file;
\* `wire` keeps the answer each image's upload got ("none": not uploaded)
ProcessProductWithImages ==
    /\ pc = "start"
    /\ op = "process_product_with_images"
    /\ \/ /\ result' = Raised("io")
          /\ UNCHANGED <<sent, wire, template>>
       \/ \E responses \in [1..Len(args.images) -> UploadResponses] :
             LET uploaded == {i \in 1..Len(args.images) : args.images[i].url = "http://x/a.png"}
                 Is(i) == i \in uploaded
             IN  /\ sent' = sent \o [k \in 1..Cardinality(uploaded) |->
                                        Request("POST", "uploads", [kind |-> "url"])]
                 /\ wire' = [shape |-> "uploads",
                             items |-> [i \in 1..Len(args.images) |->
                                           IF Is(i) THEN responses[i] ELSE "none"]]
                 /\ template' = [kind |-> "product",
                                 images |-> [i \in 1..Len(args.images) |->
                                                ProcessImage(args.images[i], responses[i])],
                                 sales_channel_properties |-> FALSE]
                 /\ \E ok \in BOOLEAN :
                       result' = IF ok THEN Returned("processed_path") ELSE Raised("io")
    /\ pc' = "done"
    /\ UNCHANGED <<op, args, api_client, calls, failed, slept, blueprints, providers,
                   bi, pi, variants, templateSrc, files, total_templates,
                   total_blueprints, manifest, skips, listed, withProviders, suggestions,
                   sampled_blueprints>>
    /\ UNCHANGED optVars

ImagesNext == ProcessProductWithImages

SpecImages == ImagesInit /\ [][ImagesNext]_vars

(***************************************************************************)
(* C29: in process_product_with_images an image whose upload succeeded has *)
(* its id, url and preview_url all replaced by the returned asset's        *)
(* values; an image whose upload failed keeps all three, and the images    *)
(* after it are still processed; an image whose url does not start with    *)
(* "http" is neither uploaded nor changed.                                 *)
(***************************************************************************)
C29_ImagesReplacedWholeOrNotAtAll ==
    (op = "process_product_with_images" /\ pc = "done" /\ template.kind = "product") =>
        /\ Len(template.images) = Len(args.images)
        /\ \A i \in 1..Len(args.images) :
              LET before == args.images[i]
                  after == template.images[i]
                  answer == wire.items[i]
              IN  /\ answer \in {"asset", "asset_no_url"} =>
                        /\ after.id = "asset"
                        /\ after.url \in {"https://cdn/a.png", "https://cdn/p.png"}
                        /\ after.preview_url = "https://cdn/p.png"
                  /\ answer \in {"no_id", "error", "none"} => after = before
                  /\ (answer = "none") <=> (before.url # "http://x/a.png")
        /\ Len(sent) = Cardinality({i \in 1..Len(args.images) : wire.items[i] # "none"})

\* the first image's upload failed and left it as it was; the second was
\* uploaded and replaced
C29_Witness ==
    /\ op = "process_product_with_images"
    /\ pc = "done"
    /\ template.kind = "product"
    /\ Len(args.images) = 2
    /\ wire.items = <<"error", "asset">>
    /\ template.images[1] = args.images[1]
    /\ template.images[2].id = "asset"
    /\ Len(sent) = 2

(***************************************************************************)
(* C30: in get_product_suggestions and search_products the sampled         *)
(* blueprints are distinct members of the (category-filtered) listing and  *)
(* number min(cap, listing size), cap being 10 for suggestions and 20 for  *)
(* search; at most cap provider fetches are sent, each for a sampled       *)
(* blueprint; and the entries collected for a blueprint come from its      *)
(* first 3 (suggestions) or first 2 (search) providers, in listing order.  *)
(***************************************************************************)
C30_SampleBoundsTheFetches ==
    \A name \in {"get_product_suggestions", "search_products"} :
        Returns(name) =>
            LET cap == IF name = "search_products" THEN SearchSample ELSE SuggestionsSample
                top == IF name = "search_products" THEN 2 ELSE 3
                sample == sampled_blueprints
                fetches == {i \in 1..Len(sent) : sent[i].endpoint = "print_providers"}
                Position(s) == CHOOSE k \in 1..Len(CatalogProviders(s.blueprint_id)) :
                                   CatalogProviders(s.blueprint_id)[k].id = s.print_provider_id
            IN  /\ Len(sample) = IF Len(blueprints) < cap THEN Len(blueprints) ELSE cap
                /\ \A i \in 1..Len(sample) : \E j \in 1..Len(blueprints) :
                      sample[i] = blueprints[j]
                /\ \A i, j \in 1..Len(sample) : i # j => sample[i].id # sample[j].id
                /\ Cardinality(fetches) <= cap
                /\ \A i \in fetches : \E k \in 1..Len(sample) : sent[i].body.id = sample[k].id
                /\ \A i, j \in fetches : i # j => sent[i].body.id # sent[j].body.id
                /\ \A i \in 1..Len(suggestions) :
                      /\ \E k \in 1..Len(sample) : sample[k].id = suggestions[i].blueprint_id
                      /\ \E k \in 1..Len(CatalogProviders(suggestions[i].blueprint_id)) :
                            CatalogProviders(suggestions[i].blueprint_id)[k].id
                                = suggestions[i].print_provider_id
                      /\ Position(suggestions[i]) <= top
                /\ \A i, j \in 1..Len(suggestions) :
                      (i < j /\ suggestions[i].blueprint_id = suggestions[j].blueprint_id)
                          => Position(suggestions[i]) < Position(suggestions[j])

\* a listing of 21 blueprints sampled down to 10, one of them having four
\* providers of which the first three gave entries
C30_Witness ==
    /\ Returns("get_product_suggestions")
    /\ Len(blueprints) = 21
    /\ Len(sampled_blueprints) = SuggestionsSample
    /\ sampled_blueprints[1].id # 1
    /\ \E b \in 1..21 :
          /\ Len(CatalogProviders(b)) = 4
          /\ Cardinality({i \in 1..Len(suggestions) : suggestions[i].blueprint_id = b}) = 3

====
